---------------------------- MODULE Spec2Model ----------------------------
(***************************************************************************)
(* Model of the generic career-site crawler (expert_job_scraper.py) and of *)
(* the quality filters it uses (scraper_filters.py).                       *)
(*                                                                         *)
(* Text is modelled by TLA+ strings, on which TLC evaluates Len, \o and    *)
(* SubSeq; the string functions of the source (strip, lower, startswith,   *)
(* `in`, split) are computed character by character.                       *)
(***************************************************************************)
EXTENDS Integers, Sequences, FiniteSets, TLC

(***************************************************************************)
(* Python values                                                           *)
(***************************************************************************)
\* Python's None where the source returns Optional[str].
None == "<None>"
\* Python's None where the source holds an optional object (a dict, a soup).
NoneObj == [none |-> TRUE]

(***************************************************************************)
(* String primitives.  They are functions on STRING rather than operators: *)
(* a function is applied to the value of its argument, so an argument is   *)
(* evaluated once however often the body uses it.                          *)
(***************************************************************************)
CharAt(s, i) == SubSeq(s, i, i)

LowerChar(c) ==
  CASE c = "A" -> "a" [] c = "B" -> "b" [] c = "C" -> "c" [] c = "D" -> "d"
    [] c = "E" -> "e" [] c = "F" -> "f" [] c = "G" -> "g" [] c = "H" -> "h"
    [] c = "I" -> "i" [] c = "J" -> "j" [] c = "K" -> "k" [] c = "L" -> "l"
    [] c = "M" -> "m" [] c = "N" -> "n" [] c = "O" -> "o" [] c = "P" -> "p"
    [] c = "Q" -> "q" [] c = "R" -> "r" [] c = "S" -> "s" [] c = "T" -> "t"
    [] c = "U" -> "u" [] c = "V" -> "v" [] c = "W" -> "w" [] c = "X" -> "x"
    [] c = "Y" -> "y" [] c = "Z" -> "z" [] OTHER -> c

\* str.lower(), one character at a time (by halves, to keep the recursion
\* shallow).
Lower[s \in STRING] ==
  IF Len(s) <= 1 THEN LowerChar(s)
  ELSE Lower[SubSeq(s, 1, Len(s) \div 2)]
         \o Lower[SubSeq(s, Len(s) \div 2 + 1, Len(s))]

\* Python's `t in s` for strings
Contains[s \in STRING, t \in STRING] ==
  \E i \in 1..(Len(s) - Len(t) + 1) : SubSeq(s, i, i + Len(t) - 1) = t

\* str.startswith(t)
StartsWith[s \in STRING, t \in STRING] ==
  Len(t) <= Len(s) /\ SubSeq(s, 1, Len(t)) = t

\* any(term in s for term in terms)
ContainsAny[s \in STRING, terms \in SUBSET STRING] ==
  \E t \in terms : Contains[s, t]

IsSpace(c) == c \in {" ", "\t", "\n", "\r"}

LStrip[s \in STRING] ==
  IF s # "" /\ IsSpace(CharAt(s, 1)) THEN LStrip[SubSeq(s, 2, Len(s))] ELSE s

RStrip[s \in STRING] ==
  IF s # "" /\ IsSpace(CharAt(s, Len(s)))
    THEN RStrip[SubSeq(s, 1, Len(s) - 1)] ELSE s

\* str.strip()
Strip[s \in STRING] == RStrip[LStrip[s]]

\* Index of the first occurrence of t in s (s.find(t) + 1); 0 when absent.
Find[s \in STRING, t \in STRING] ==
  IF Contains[s, t]
    THEN CHOOSE i \in 1..(Len(s) - Len(t) + 1) :
           /\ SubSeq(s, i, i + Len(t) - 1) = t
           /\ \A j \in 1..(i - 1) : SubSeq(s, j, j + Len(t) - 1) # t
    ELSE 0

\* s.split(sep)[0]
SplitHead[s \in STRING, sep \in STRING] ==
  IF Contains[s, sep] THEN SubSeq(s, 1, Find[s, sep] - 1) ELSE s

\* The part of s after the first occurrence of sep ("" when sep is absent).
SplitTail[s \in STRING, sep \in STRING] ==
  IF Contains[s, sep] THEN SubSeq(s, Find[s, sep] + Len(sep), Len(s)) ELSE ""

(***************************************************************************)
(* scraper_filters.py                                                      *)
(***************************************************************************)
\* sanitize_url: None unless the stripped value is an http(s) URL.
\* A variant that lets ftp URLs through.
http_prefixes_and_ftp == {"http://", "https://", "ftp://"}

\* The prefixes of line 19.
http_prefixes == {"http://", "https://"}

sanitize_url[url \in STRING] ==
  IF url = None \/ url = "" THEN None
  ELSE IF \E p \in {"mailto:", "tel:", "javascript:", "data:", "#"} :
            StartsWith[Lower[Strip[url]], p]
    THEN None
  ELSE IF ~ \E p \in http_prefixes : StartsWith[Lower[Strip[url]], p]
    THEN None
  ELSE Strip[url]

allowed_terms ==
  {"intern", "internship", "co-op", "trainee", "graduate", "student",
   "apprentice", "fellowship"}

\* A variant without the abbreviations "sr." and "sr ".
forbidden_terms_unabbreviated ==
  {"senior", "staff", "lead", "principal", "architect", "manager",
   "director", "vp", "head of", "executive", "chief", "partner"}

forbidden_terms ==
  {"senior", "staff", "lead", "principal", "architect", "manager",
   "director", "vp", "head of", "executive", "sr.", "sr ", "chief",
   "partner"}

\* matches_target_role(title, mode): the strict role gate.
matches_target_role[title \in STRING, mode \in STRING] ==
  IF title = None \/ title = "" THEN FALSE
  ELSE IF mode = "internship"
    THEN /\ ContainsAny[Lower[title], allowed_terms]
         /\ ~ ContainsAny[Lower[title], forbidden_terms]
    ELSE TRUE

junk_terms ==
  {"youradchoices", "privacy policy", "cookie policy", "terms of use",
   "do not sell my info", "opt out", "digital advertising alliance",
   "interest-based ads", "browser cookies", "javascript error"}

\* is_valid_job(job_dict): schema, ad and description-quality filter.
is_valid_job(job) ==
  \E j \in {job} :
    IF j = NoneObj THEN FALSE
    ELSE LET get(k) == IF k \in DOMAIN j THEN j[k] ELSE ""
             title == IF get("job_title") # "" THEN get("job_title")
                      ELSE get("title")
             company == get("company")
             desc == IF get("job_description") # "" THEN get("job_description")
                     ELSE get("description")
         IN /\ title # "" /\ company # ""
            /\ ~ ContainsAny[Lower[title \o " " \o company], junk_terms]
            /\ ~ (Len(desc) < 50)
            /\ ~ ( /\ Contains[Lower[desc], "privacy policy"]
                   /\ Len(desc) < 500
                   /\ ~ Contains[Lower[desc], "responsibilities"] )

(***************************************************************************)
(* expert_job_scraper.py: pure helpers                                     *)
(***************************************************************************)
skipped_terms ==
  {"login", "sign-in", "my-profile", "benefits", "skip-to-main",
   "candidateexperience", "auth", "sso", "oraclecloud.com", "privacy",
   "terms", "cookie"}

\* should_skip_url: the URL blocklist (hard stop).
should_skip_url[url \in STRING] ==
  IF sanitize_url[url] = None THEN TRUE
  ELSE ContainsAny[Lower[sanitize_url[url]], skipped_terms]

spa_indicators ==
  {"myworkdayjobs.com", "taleo.net", "icims.com", "greenhouse.io",
   "lever.co", "startup.jobs", "#/job", "#search"}

\* _is_spa_url
_is_spa_url[url \in STRING] == ContainsAny[Lower[url], spa_indicators]

\* _get_job_detail_url: an apply URL is cut back to its parent detail URL.
_get_job_detail_url[url \in STRING] ==
  IF Contains[url, "/apply"] THEN SplitHead[url, "/apply"]
  ELSE IF Contains[url, "/application"] THEN SplitHead[url, "/application"]
  ELSE url

\* _is_apply_url
_is_apply_url[url \in STRING] ==
  Contains[url, "/apply"] \/ Contains[url, "/application"]

invalid_titles ==
  {"apply", "provide", "upload resume", "join us", "login", "create account",
   "careers", "jobs", "work with us", "search", "results", "filter",
   "please wait", "loading", "application", "job title not available",
   "profile", "member", "blog", "news", "events"}

\* _is_invalid_title
_is_invalid_title[title \in STRING] ==
  IF title = "" \/ Len(title) < 3 THEN TRUE
  ELSE ContainsAny[Lower[title], invalid_titles]

role_keywords ==
  {"engineer", "developer", "manager", "analyst", "consultant", "specialist",
   "director", "intern"}

\* A variant without the title boost of line 885.
_score_job_without_boost(job) ==
  LET title == Lower[job.job_title]
      desc == Lower[job.job_description]
      loc == job.location
  IN   (IF Len(title) > 3 /\ ~ _is_invalid_title[title] THEN 2 ELSE 0)
     + (IF Len(desc) > 200 THEN 2 ELSE 0)
     + (IF Len(job.skills) > 0 THEN 1 ELSE 0)
     + (IF loc # "" /\ Lower[loc] # "location not specified" THEN 1 ELSE 0)
     - (IF ContainsAny[desc, {"employee benefits", "our culture",
                              "frequently asked questions"}] THEN 3 ELSE 0)
     - (IF Contains[desc, "application form"] \/ Contains[desc, "upload resume"]
          THEN 5 ELSE 0)

\* _score_job: the confidence score (step 8 of the source).
_score_job(job) ==
  LET title == Lower[job.job_title]
      desc == Lower[job.job_description]
      loc == job.location
  IN   (IF Len(title) > 3 /\ ~ _is_invalid_title[title] THEN 2 ELSE 0)
     + (IF Len(desc) > 200 THEN 2 ELSE 0)
     + (IF Len(job.skills) > 0 THEN 1 ELSE 0)
     + (IF loc # "" /\ Lower[loc] # "location not specified" THEN 1 ELSE 0)
     + (IF ContainsAny[title, role_keywords] THEN 1 ELSE 0)
     - (IF ContainsAny[desc, {"employee benefits", "our culture",
                              "frequently asked questions"}] THEN 3 ELSE 0)
     - (IF Contains[desc, "application form"] \/ Contains[desc, "upload resume"]
          THEN 5 ELSE 0)

\* _validate_country
_validate_country_off(job, country) == TRUE
_validate_country(job, country) ==
  \E loc \in {Lower[job.location]} :
    \/ Contains[loc, Lower[country]]
    \/ Contains[loc, "remote"]
    \/ Contains[loc, "not specified"]
    \/ Contains[loc, "worldwide"]

\* _validate_job as the class binds it.  The class body defines _validate_job
\* twice (lines 856 and 1195); the later definition replaces the earlier one,
\* so the score-based definition of line 856 is never called.
_validate_job(job, country) ==
  \E j \in {job} :
    /\ is_valid_job(j)
    /\ matches_target_role[j.job_title, "internship"]
    /\ _validate_country(j, country)

\* The key _deduplicate_jobs files a record under, given the keys already used.
DedupKey(job, keys) ==
  IF job.job_id = "" \/ job.job_id \in keys
    THEN job.job_title \o "_" \o job.location \o "_" \o job.company
    ELSE job.job_id

\* A variant that returns the kept records newest first.
RECURSIVE DedupFromNewestFirst(_, _, _)
DedupFromNewestFirst(jobs, keys, out) ==
  IF jobs = <<>> THEN out
  ELSE LET key == DedupKey(Head(jobs), keys) IN
       IF key \in keys
         THEN DedupFromNewestFirst(Tail(jobs), keys, out)
         ELSE DedupFromNewestFirst(Tail(jobs), keys \cup {key},
                                   << Head(jobs) >> \o out)

RECURSIVE DedupFrom(_, _, _)
DedupFrom(jobs, keys, out) ==
  IF jobs = <<>> THEN out
  ELSE LET key == DedupKey(Head(jobs), keys) IN
       IF key \in keys
         THEN DedupFrom(Tail(jobs), keys, out)
         ELSE DedupFrom(Tail(jobs), keys \cup {key}, Append(out, Head(jobs)))

\* _deduplicate_jobs: first record of each key, in insertion order.
_deduplicate_jobs(jobs) == DedupFrom(jobs, {}, <<>>)

(***************************************************************************)
(* Bounds of the model                                                     *)
(***************************************************************************)
\* Failures (failed or crashing fetches, crashing page processing) injected
\* into one behaviour.
MaxFaults == 2
\* Failures injected into one behaviour of two interleaved callers.
MaxFaultsConc == 1
\* extract_jobs_from_site calls made one after the other on one scraper.
MaxCalls == 2
\* Records in a list handed to _deduplicate_jobs on its own.
MaxJobs == 3
\* Records in a list handed to save_jobs.
MaxBatch == 2
\* The limit handed to _find_companies.
MaxLimit == 2
\* Results on one page of the search API.
MaxResults == 2
\* Frames of _recursive_crawl on the call stack (the code reaches 4).
MaxStack == 5

(***************************************************************************)
(* Program constants                                                       *)
(***************************************************************************)
MAX_DEPTH == 2
LEGACY_DEPTH == 3
MIN_WORDS == 100
MIN_CHARS == 500
GIVE_UP_WORDS == 50
MAX_CARDS == 20
MAX_LISTING_CARDS == 15
MAX_LISTING_LINKS == 10
MAX_CATEGORIES == 8
BATCH_SIZE == 20

\* seq[:n]
Take(seq, n) == IF Len(seq) <= n THEN seq ELSE SubSeq(seq, 1, n)

(***************************************************************************)
(* The crawled site: the pages behind the URLs.                            *)
(*                                                                         *)
(* A page is described by what the DOM queries of the source find in it:   *)
(*   words, chars, marker  visible text of the light-tier rendering        *)
(*   jsonly     the light tier renders none of the features below          *)
(*   info       career-marketing phrases in the text                       *)
(*   joblist    a ul#jobs list with items                                  *)
(*   indicator  a job-detail container (article, section[role=main], ...)  *)
(*   content    text nodes with responsibilities / requirements language   *)
(*   cards      _find_job_cards: per card the urljoin-ed href ("" when     *)
(*              the anchor has none) and the heading text                  *)
(*   cats       _find_category_links: urljoin-ed hrefs                     *)
(*   links      job-like anchors seen by _find_job_links: urljoin-ed hrefs *)
(*   form       search-filter inputs: "none", "loc", "kw" or "both"        *)
(*   apply      _is_apply_page holds                                       *)
(*   jsonld     a JobPosting is embedded                                   *)
(*   job        the field values extraction reads off the page             *)
(***************************************************************************)
Germany == "Germany"

Text50 == "We build tools for data teams across all of Europe"
Text60 == Text50 \o " and more."
Text300 == Text50 \o " " \o Text50 \o " " \o Text50 \o " " \o Text50 \o " "
             \o Text50 \o " " \o Text50

NoJob ==
  [job_title |-> "", company |-> "", location |-> "", job_description |-> "",
   skills |-> <<>>, job_id |-> "", source_url |-> ""]

\* A German internship with a full description.
JobIntern ==
  [job_title |-> "Software Engineering Intern", company |-> "Acme",
   location |-> "Berlin, Germany", job_description |-> Text300,
   skills |-> <<"Python">>, job_id |-> "", source_url |-> ""]

\* An internship located outside the target country.
JobAbroad ==
  [job_title |-> "Data Intern", company |-> "Acme",
   location |-> "Austin, TX", job_description |-> Text300,
   skills |-> <<"SQL">>, job_id |-> "", source_url |-> ""]

\* A thin record: short description, no skills, no location.
JobThin ==
  [job_title |-> "Graduate Trainee", company |-> "Acme",
   location |-> "Location not specified", job_description |-> Text60,
   skills |-> <<>>, job_id |-> "", source_url |-> ""]

\* Not an internship.
JobSenior ==
  [job_title |-> "Senior Software Engineer", company |-> "Acme",
   location |-> "Remote", job_description |-> Text300,
   skills |-> <<"Java">>, job_id |-> "", source_url |-> ""]

BlankPage ==
  [words |-> 0, chars |-> 0, marker |-> FALSE, jsonly |-> FALSE,
   info |-> FALSE, joblist |-> FALSE, indicator |-> FALSE, content |-> 0,
   cards |-> <<>>, cats |-> <<>>, links |-> <<>>, form |-> "none",
   apply |-> FALSE, jsonld |-> FALSE, job |-> NoJob]

\* A page with plenty of visible text.
RichPage == [BlankPage EXCEPT !.words = 400, !.chars = 2400]

DetailPage(job) == [RichPage EXCEPT !.indicator = TRUE, !.job = job]

Card(href, title) == [href |-> href, title |-> title]

Root == "http://a.de/jobs"
RootApply == "http://a.de/jobs/apply"
SpaRoot == "http://a.de/#/jobs"
Blocked == "http://a.de/login"
HubA == "http://a.de/students"
HubB == "http://a.de/tech"
HubC == "http://a.de/data"
HubD == "http://a.de/labs"
HubE == "http://a.de/grads"
Job1 == "http://a.de/job/1"
Job2 == "http://a.de/job/2"
Job3 == "http://a.de/job/3"
Job4 == "http://a.de/job/4"
Job1Apply == "http://a.de/job/1/apply"
Job5 == "http://a.de/job/5"
HubApply == "http://a.de/students/apply"

\* The pages every site of the model shares.
CommonPages ==
     Job1 :> DetailPage(JobIntern)
  @@ Job2 :> DetailPage(JobAbroad)
  @@ Job3 :> [DetailPage(JobThin) EXCEPT !.jsonld = TRUE, !.words = 60,
                                         !.chars = 380]
  @@ Job4 :> DetailPage(JobSenior)
  @@ Job1Apply :> [RichPage EXCEPT !.apply = TRUE]
  @@ HubC :> [RichPage EXCEPT
                !.cards = << Card(Job1, "Software Engineering Intern"),
                             Card(Job3, "Graduate Trainee") >>,
                !.cats = << HubD >>]
  @@ HubD :> [RichPage EXCEPT !.cats = << Root >>, !.links = << Job3 >>]

HubsCyclic ==
     HubA :> [RichPage EXCEPT !.cats = << HubB, Root, HubA >>,
                              !.links = << Job1 >>]
  @@ HubB :> [RichPage EXCEPT !.words = 120, !.chars = 450,
                              !.cats = << HubC, HubA >>]

FilteredRoot == "http://a.de/jobs?location=Germany&loc=Germany&country=Germany&q=Germany&keywords=Germany"

RootListingCards ==
  << Card(Job1, "Software Engineering Intern"), Card(Job2, "Data Intern"),
     Card(Job1Apply, "Software Engineering Intern"), Card("", "Open roles"),
     Card(Job4, "Senior Software Engineer") >>

SiteOf(root, rootPage, more) ==
  [root |-> root, pages |-> (root :> rootPage) @@ more @@ CommonPages]

\* The sites a behaviour is drawn from.
Sites ==
  << \* a hub whose categories link to each other, to themselves and back
    SiteOf(Root, [RichPage EXCEPT !.cats = << HubA, HubB >>], HubsCyclic),
    \* a hub with one category and job links of its own
    SiteOf(Root, [RichPage EXCEPT !.cats = << HubB >>,
                                  !.links = << Job1, Job1Apply >>], HubsCyclic),
    \* a listing: duplicate, apply-only, link-less and rejected cards
    SiteOf(Root, [RichPage EXCEPT !.cards = RootListingCards,
                                  !.links = << Job3 >>], HubsCyclic),
    \* a listing none of whose cards validates, with category links
    SiteOf(Root, [RichPage EXCEPT !.cards = << Card(Job2, "Data Intern") >>,
                                  !.cats = << HubA >>], HubsCyclic),
    \* the root is itself a job detail page
    SiteOf(Root, DetailPage(JobIntern), HubsCyclic),
    \* a career-marketing page with category links
    SiteOf(Root, [RichPage EXCEPT !.info = TRUE, !.cats = << HubA >>],
           HubsCyclic),
    \* a search form whose filtered page lists a job
    SiteOf(Root, [RichPage EXCEPT !.form = "both", !.cats = << HubB >>],
           HubsCyclic @@
           FilteredRoot :> [RichPage EXCEPT
                              !.cards = << Card(Job1, "Intern") >>]),
    \* a search form whose filtered page is empty and links back to the root
    SiteOf(Root, [RichPage EXCEPT !.form = "both",
                                  !.cards = << Card(Job1, "Intern") >>],
           HubsCyclic @@
           FilteredRoot :> [RichPage EXCEPT !.cats = << Root >>]),
    \* a hub only the heavy tier renders
    SiteOf(Root, [BlankPage EXCEPT !.words = 20, !.chars = 120,
                                   !.jsonly = TRUE, !.cats = << HubB >>],
           HubsCyclic),
    \* a hash-routed single-page application
    SiteOf(SpaRoot, [RichPage EXCEPT !.links = << Job1 >>], HubsCyclic),
    \* the seed is an apply URL
    SiteOf(RootApply, [RichPage EXCEPT !.apply = TRUE],
           HubsCyclic @@ Root :> [RichPage EXCEPT !.cats = << HubB >>]),
    \* the seed is on the blocklist
    SiteOf(Blocked, RichPage, HubsCyclic),
    \* two listings without a valid job that link to each other
    SiteOf(Root, [RichPage EXCEPT !.cards = << Card(Job2, "Data Intern") >>,
                                  !.cats = << HubE >>],
           HubE :> [RichPage EXCEPT
                      !.cards = << Card(Job4, "Senior Software Engineer") >>,
                      !.cats = << Root, HubE >>]),
    \* a listing with one posting published under two URLs
    SiteOf(Root, [RichPage EXCEPT
                    !.cards = << Card(Job1, "Software Engineering Intern"),
                                 Card(Job5, "Software Engineering Intern") >>],
           Job5 :> DetailPage(JobIntern)),
    \* a hub one of whose category links points at an apply page
    SiteOf(Root, [RichPage EXCEPT !.cats = << HubApply >>],
           HubApply :> [RichPage EXCEPT !.apply = TRUE,
                                        !.links = << Job1 >>]),
    \* a search form whose filtered page only links back to the root, the
    \* jobs being two levels below the root
    SiteOf(Root, [RichPage EXCEPT !.form = "both", !.cats = << HubB >>],
           HubsCyclic @@
           FilteredRoot :> [RichPage EXCEPT !.cats = << Root >>]),
    \* a listing with more cards and more job links than one pass takes, the
    \* pages behind them being gone
    SiteOf(Root, [RichPage EXCEPT
                    !.cards = [i \in 1..(MAX_LISTING_CARDS + 2) |->
                                 Card(Job1 \o ToString(i), "Intern")],
                    !.links = [i \in 1..(MAX_LISTING_LINKS + 2) |->
                                 Job2 \o ToString(i)]],
           HubsCyclic),
    \* a listing whose cards give three valid jobs, with a job link as well
    SiteOf(Root, [RichPage EXCEPT
                    !.cards = << Card(Job1, "Software Engineering Intern"),
                                 Card(Job5, "Platform Intern"),
                                 Card(Job5 \o "0", "Finance Intern") >>,
                    !.links = << Job2 >>],
           Job5 :> DetailPage([JobIntern EXCEPT
                                 !.job_title = "Platform Intern"])
           @@ (Job5 \o "0") :> DetailPage([JobIntern EXCEPT
                                   !.job_title = "Finance Intern"])) >>

(***************************************************************************)
(* job_database.py                                                         *)
(***************************************************************************)
\* The jobs table after init_database on a new file (rows in rowid order,
\* next_id the next AUTOINCREMENT value), with no save_jobs call in progress.
NewDb ==
  [rows |-> <<>>, next_id |-> 1, saving |-> FALSE, jobs_left |-> 0,
   job |-> NoneObj, saved_count |-> 0, updated_count |-> 0]

\* A variant without the SELECT: every record is inserted, and the
\* UNIQUE(job_id, company) ON CONFLICT REPLACE clause deletes the row in the
\* way.
save_row_insert_only(d, job, country) ==
  IF job.title = None \/ job.company = None THEN [d EXCEPT !.job = job]
  ELSE [d EXCEPT
          !.rows = Append(SelectSeq(@, LAMBDA r : ~ ( /\ r.job_id = job.job_id
                                                     /\ r.company = job.company )),
                          [id |-> d.next_id, job_id |-> job.job_id,
                           company |-> job.company, title |-> job.title,
                           country |-> country]),
          !.next_id = @ + 1, !.job = job, !.saved_count = @ + 1]

\* One turn of the loop of save_jobs (lines 64-116) on record job: the
\* SELECT by (job_id, company), then the UPDATE of the rows found or the
\* INSERT of a new row.  A record the table turns down (title or company
\* NULL, lines 24-25) raises, and the except of line 115 skips it.
save_row(d, job, country) ==
  LET existing == {i \in 1..Len(d.rows) :
                     /\ d.rows[i].job_id = job.job_id
                     /\ d.rows[i].company = job.company}
  IN IF job.title = None \/ job.company = None THEN [d EXCEPT !.job = job]
     ELSE IF existing # {}
       THEN [d EXCEPT
               !.rows = [i \in 1..Len(@) |->
                           IF i \in existing
                             THEN [@[i] EXCEPT !.title = job.title,
                                               !.country = country]
                             ELSE @[i]],
               !.job = job, !.updated_count = @ + 1]
     ELSE [d EXCEPT
             !.rows = Append(@, [id |-> d.next_id, job_id |-> job.job_id,
                                 company |-> job.company, title |-> job.title,
                                 country |-> country]),
             !.next_id = @ + 1, !.job = job, !.saved_count = @ + 1]

(***************************************************************************)
(* enhanced_serper_agent.py                                                *)
(***************************************************************************)
\* _save_job_profiles(job_profiles, country) on table d: the table
\* afterwards and the count returned.  A profile that is_valid_job or the
\* role gate turns down is skipped; the others are converted (job_id is
\* profile.get('job_id', '')) and handed to save_jobs one at a time, whose
\* saved_count is added up.
RECURSIVE _save_job_profiles(_, _, _)
_save_job_profiles(d, job_profiles, country) ==
  IF job_profiles = <<>> THEN [db |-> d, saved_count |-> 0]
  ELSE LET profile == Head(job_profiles)
           skipped == \/ ~ is_valid_job(profile)
                      \/ ~ matches_target_role[profile.job_title,
                                               "internship"]
           job_data == [job_id |-> IF "job_id" \in DOMAIN profile
                                     THEN profile.job_id ELSE "",
                        company |-> profile.company,
                        title |-> profile.job_title]
           after == IF skipped THEN d
                    ELSE save_row([d EXCEPT !.saved_count = 0,
                                            !.updated_count = 0],
                                  job_data, country)
           rest == _save_job_profiles(after, Tail(job_profiles), country)
       IN [db |-> rest.db,
           saved_count |-> (IF skipped THEN 0 ELSE after.saved_count)
                             + rest.saved_count]

\* _is_career_site(title, link)
_is_career_site(title, link) ==
  \/ ContainsAny[Lower[title], {"career", "job", "hiring", "work",
                                "employment", "opportunity"}]
  \/ ContainsAny[Lower[link], {"career", "job", "hiring"}]

\* The locals of _find_companies when its loop is entered (lines 76-79).
NewSearch ==
  [pc |-> "loop", companies |-> <<>>, seen_domains |-> {}, start |-> 0,
   new_companies_found |-> FALSE]

\* A variant without the test of lines 103-104.
RECURSIVE TakeCompaniesUncapped(_, _, _)
TakeCompaniesUncapped(organic, s, limit) ==
  IF organic = <<>> THEN s
  ELSE LET result == Head(organic)
           domain == Lower[SplitHead[SplitHead[SplitHead[
                       SplitTail[result.link, "://"], "/"], "?"], "#"]]
       IN IF domain \notin s.seen_domains
               /\ _is_career_site(result.title, result.link)
            THEN TakeCompaniesUncapped(Tail(organic),
                   [s EXCEPT !.companies =
                               Append(@, [url |-> result.link,
                                          domain |-> domain,
                                          title |-> result.title]),
                             !.seen_domains = @ \cup {domain},
                             !.new_companies_found = TRUE], limit)
            ELSE TakeCompaniesUncapped(Tail(organic), s, limit)

\* The loop over the results of one page (lines 102-117).  domain is
\* urlparse(link).netloc.lower(); a company keeps the link, the domain and,
\* here, the title of its result (the code keeps the name it derives from the
\* title and the domain).
RECURSIVE TakeCompanies(_, _, _)
TakeCompanies(organic, s, limit) ==
  IF organic = <<>> \/ Len(s.companies) >= limit THEN s
  ELSE LET result == Head(organic)
           domain == Lower[SplitHead[SplitHead[SplitHead[
                       SplitTail[result.link, "://"], "/"], "?"], "#"]]
       IN IF domain \notin s.seen_domains
               /\ _is_career_site(result.title, result.link)
            THEN TakeCompanies(Tail(organic),
                   [s EXCEPT !.companies =
                               Append(@, [url |-> result.link,
                                          domain |-> domain,
                                          title |-> result.title]),
                             !.seen_domains = @ \cup {domain},
                             !.new_companies_found = TRUE], limit)
            ELSE TakeCompanies(Tail(organic), s, limit)

(***************************************************************************)
(* State                                                                   *)
(***************************************************************************)
Tasks == {1, 2}
Scrapers == {1, 2}

VARIABLES
  site,       \* the site crawled in this behaviour (an index of Sites)
  budget,     \* failures still to be injected
  calls,      \* extract_jobs_from_site calls started so far
  scraperOf,  \* the ExpertJobScraper object each task calls
  scraper,    \* per scraper object: its instance fields
  call,       \* per task: the locals of its extract_jobs_from_site call
  stack,      \* per task: the frames of _recursive_crawl, innermost last
  running,    \* the task holding the event loop (0: all are suspended)
  fetchLog,   \* per task: the fetches of the current call, in order, with
              \* the browser teardowns and the exceptions a visit caught
  args,       \* the arguments of a helper called on its own (NoneObj: none)
  ret,        \* what the helper returned, one entry per application
  db,         \* the jobs table, and the locals of the save_jobs call on it
  search      \* the locals of a _find_companies call

vars ==
  << site, budget, calls, scraperOf, scraper, call, stack, running, fetchLog,
     args, ret, db, search >>

\* ExpertJobScraper.__init__
NewScraper ==
  [seen_urls |-> {}, visited_gateways |-> {}, rejected_urls |-> {},
   visited_urls |-> {}, visited_job_urls |-> {},
   used_selenium_for_url |-> {}]

\* crashed: the except branch of line 152 has been entered.
IdleCall ==
  [pc |-> "idle", site_url |-> "", country |-> "", clean_url |-> "",
   scan_soup |-> NoneObj, result |-> <<>>, crashed |-> FALSE]

\* A parsed page: which URL was rendered and by which tier.
Soup(url, tier) == [url |-> url, tier |-> tier]

PageAt(url) ==
  IF url \in DOMAIN Sites[site].pages THEN Sites[site].pages[url]
  ELSE BlankPage

Exists(url) == url \in DOMAIN Sites[site].pages

\* What the DOM queries find in a parsed page.
Dom(soup) ==
  LET p == PageAt(soup.url) IN
  IF soup.tier = "light" /\ p.jsonly
    THEN [BlankPage EXCEPT !.words = p.words, !.chars = p.chars,
                           !.marker = p.marker]
    ELSE p

Me(t) == scraper[scraperOf[t]]
Top(t) == stack[t][Len(stack[t])]

Logged(t, tier, url, by, depth) ==
  [fetchLog EXCEPT
     ![t] = Append(@, [tier |-> tier, url |-> url, by |-> by, depth |-> depth])]

(***************************************************************************)
(* Fetch outcomes.  A fetch of a URL the site has no page for fails; any   *)
(* fetch may also fail or crash while the failure budget lasts.            *)
(***************************************************************************)
\* crawler.arun: "ok" (result.success), "fail" (not success), "raise".
LightOutcomes(url) ==
  {IF Exists(url) THEN "ok" ELSE "fail"}
    \cup (IF budget > 0 THEN {"fail", "raise"} ELSE {})

LightCost(url, o) == IF o = (IF Exists(url) THEN "ok" ELSE "fail") THEN 0 ELSE 1

\* The browser session of _extract_with_selenium: "html" (page_source),
\* "empty" (an exception inside the try: returns ""), "raise" (driver.quit()
\* fails in the finally block and the exception leaves the function).
HeavyOutcomes(url) ==
  {IF Exists(url) THEN "html" ELSE "empty"}
    \cup (IF budget > 0 THEN {"empty", "raise"} ELSE {})

HeavyCost(url, o) ==
  IF o = (IF Exists(url) THEN "html" ELSE "empty") THEN 0 ELSE 1

\* The fetch log after a heavy-tier request whose outcome is r: a launch is
\* logged as "heavy", a request turned down by the escalate-once test (the
\* message of line 232) as "repeat".
HeavyLogged(t, r, url, by, depth) ==
  IF r.launched
    THEN IF r.quit = "none" THEN Logged(t, "heavy", url, by, depth)
         ELSE [Logged(t, "heavy", url, by, depth) EXCEPT
                 ![t] = Append(@, [tier |-> IF r.quit = "raised"
                                              THEN "quit_raised" ELSE "quit",
                                   url |-> url, by |-> by, depth |-> depth])]
  ELSE IF r.repeated THEN Logged(t, "repeat", url, by, depth)
  ELSE fetchLog

\* The log after the except clause of visit (lines 525-527) caught an
\* exception in frame f.
Excepted(log, t, f) ==
  [log EXCEPT ![t] = Append(@, [tier |-> "except", url |-> f.url,
                                by |-> "visit", depth |-> f.depth])]

\* The escalate-once test of _extract_with_selenium (line 231).
UsedSeleniumNever(sc, url) == FALSE
UsedSelenium(sc, url) == url \in sc.used_selenium_for_url

\* Whether _extract_with_selenium gets as far as opening a browser.
Launches(sc, url) == ~ should_skip_url[url] /\ ~ UsedSelenium(sc, url)

\* A variant whose browser is closed only after page_source was read, with
\* no finally block.
_extract_with_selenium_no_finally(sc, url, o) ==
  IF ~ Launches(sc, url)
    THEN [sc |-> sc, html |-> "", raised |-> FALSE, launched |-> FALSE,
          repeated |-> ~ should_skip_url[url], quit |-> "none"]
    ELSE [sc |-> [sc EXCEPT !.used_selenium_for_url = @ \cup {url}],
          html |-> IF o = "html" THEN "rendered" ELSE "",
          raised |-> (o = "raise"), launched |-> TRUE, repeated |-> FALSE,
          quit |-> IF o = "html" THEN "done" ELSE "none"]

\* _extract_with_selenium(url) when the browser session ends with outcome o:
\* the scraper afterwards, the html returned ("" or the rendered page),
\* whether an exception leaves the function, and what became of
\* driver.quit() in the finally block (lines 314-316): "none" when no
\* browser was asked for, "done", or "raised".
_extract_with_selenium(sc, url, o) ==
  IF ~ Launches(sc, url)
    THEN [sc |-> sc, html |-> "", raised |-> FALSE, launched |-> FALSE,
          repeated |-> ~ should_skip_url[url], quit |-> "none"]
    ELSE [sc |-> [sc EXCEPT !.used_selenium_for_url = @ \cup {url}],
          html |-> IF o = "html" THEN "rendered" ELSE "",
          raised |-> (o = "raise"), launched |-> TRUE, repeated |-> FALSE,
          quit |-> IF o = "raise" THEN "raised" ELSE "done"]

\* The outcomes to consider for a call of _extract_with_selenium.
SeleniumOutcomes(sc, url) ==
  IF Launches(sc, url) THEN HeavyOutcomes(url) ELSE {"empty"}

SeleniumCost(sc, url, o) ==
  IF Launches(sc, url) THEN HeavyCost(url, o) ELSE 0

\* The escalation test of the entry step (line 108).
LowQualityAtEntry(dom) ==
  dom.words < MIN_WORDS \/ dom.chars < MIN_CHARS \/ dom.marker

\* urllib.parse.quote_plus on the characters the model's countries use.
quote_plus[s \in STRING] ==
  IF s = "" THEN ""
  ELSE (IF CharAt(s, 1) = " " THEN "+" ELSE CharAt(s, 1))
         \o quote_plus[SubSeq(s, 2, Len(s))]

\* urlparse(url).query is non-empty
HasQuery(url) == SplitHead[SplitTail[url, "?"], "#"] # ""

\* _detect_and_fill_filters: the filtered search URL, or None.
_detect_and_fill_filters(dom, base_url, country) ==
  LET has_location == dom.form \in {"loc", "both"}
      has_keyword == dom.form \in {"kw", "both"}
      c == quote_plus[country]
      locq == "location=" \o c \o "&loc=" \o c \o "&country=" \o c
      kwq == "q=" \o c \o "&keywords=" \o c
      new_query == IF has_location /\ has_keyword THEN locq \o "&" \o kwq
                   ELSE IF has_location THEN locq ELSE kwq
  IN IF country = "" THEN None
     ELSE IF ~ (has_location \/ has_keyword) THEN None
     ELSE IF HasQuery(base_url) THEN base_url \o "&" \o new_query
     ELSE base_url \o "?" \o new_query

\* A fresh activation of _recursive_crawl(url, country, crawler, depth).
Frame(url, depth) ==
  [url |-> url, depth |-> depth, pc |-> "guard", soup |-> NoneObj,
   page_type |-> "", cats |-> <<>>, all_jobs |-> <<>>,
   cards |-> <<>>, links |-> <<>>, visited |-> {}, jobs |-> <<>>,
   res |-> <<>>]

\* The task is suspended on an await of the crawler (aenter/aexit, arun),
\* or has no call in progress.
Suspended(c, st) ==
  \/ c.pc \in {"idle", "start", "entry_fetch", "finish", "done", "raised"}
  \/ st # <<>> /\ st[Len(st)].pc \in {"fetch", "cards", "links"}

\* The task may take a step: it holds the event loop, or nobody does.
MayRun(t) == running \in {0, t}

Yield(t) == running' = IF Suspended(call'[t], stack'[t]) THEN 0 ELSE t

(***************************************************************************)
(* extract_jobs_from_site                                                  *)
(***************************************************************************)
\* Lines 62-68: a call starts; the session fields are reset (visited_gateways
\* and rejected_urls are not among them) and the coroutine reaches
\* `async with AsyncWebCrawler(...)`.
Call(t) ==
  /\ call[t].pc \in {"idle", "done", "raised"}
  /\ calls < MaxCalls
  /\ MayRun(t)
  /\ calls' = calls + 1
  /\ scraper' = [scraper EXCEPT ![scraperOf[t]] =
                   [@ EXCEPT !.seen_urls = {}, !.visited_urls = {},
                             !.visited_job_urls = {},
                             !.used_selenium_for_url = {}]]
  /\ call' = [call EXCEPT ![t] =
                [IdleCall EXCEPT !.pc = "start", !.site_url = Sites[site].root,
                                 !.country = Germany]]
  /\ stack' = [stack EXCEPT ![t] = <<>>]
  /\ fetchLog' = [fetchLog EXCEPT ![t] = <<>>]
  /\ UNCHANGED << site, budget, scraperOf >>
  /\ Yield(t)
  /\ UNCHANGED << args, ret, db, search >>

\* Lines 72-79: the crawler starts (or fails to), the apply URL is resolved
\* and the blocklist consulted.
Start(t) ==
  /\ call[t].pc = "start"
  /\ MayRun(t)
  /\ \/ /\ budget > 0
        /\ budget' = budget - 1
        /\ call' = [call EXCEPT ![t].pc = "emergency"]
     \/ /\ budget' = budget
        /\ \E clean_url \in {_get_job_detail_url[call[t].site_url]} :
           call' = [call EXCEPT
                      ![t].clean_url = clean_url,
                      ![t].pc = IF should_skip_url[clean_url]
                                  THEN "finish" ELSE "entry_fetch"]
  /\ UNCHANGED << site, calls, scraperOf, scraper, stack, fetchLog >>
  /\ Yield(t)
  /\ UNCHANGED << args, ret, db, search >>

\* Lines 86-114: the light-tier fetch of the root and its quality check.
EntryFetch(t) ==
  /\ call[t].pc = "entry_fetch"
  /\ MayRun(t)
  /\ \E o \in LightOutcomes(call[t].clean_url) :
       LET url == call[t].clean_url
           soup == Soup(url, "light")
       IN /\ budget' = budget - LightCost(url, o)
          /\ fetchLog' = Logged(t, "light", url, "entry", 0)
          /\ call' = [call EXCEPT
                        ![t].scan_soup = IF o = "ok" THEN soup ELSE NoneObj,
                        ![t].pc = CASE o = "raise" -> "emergency"
                                    [] o = "fail" -> "entry_lastresort"
                                    [] OTHER ->
                                         IF LowQualityAtEntry(Dom(soup))
                                           THEN "entry_escalate"
                                           ELSE "entry_filters"]
  /\ UNCHANGED << site, calls, scraperOf, scraper, stack >>
  /\ Yield(t)
  /\ UNCHANGED << args, ret, db, search >>

\* Lines 108-114: low-quality content, retry with the heavy tier; the light
\* page is kept when the retry returns nothing.
EntryEscalate(t) ==
  /\ call[t].pc = "entry_escalate"
  /\ MayRun(t)
  /\ \E o \in SeleniumOutcomes(Me(t), call[t].clean_url) :
       \E url \in {call[t].clean_url} :
       \E r \in {_extract_with_selenium(Me(t), url, o)} :
          /\ budget' = budget - SeleniumCost(Me(t), url, o)
          /\ scraper' = [scraper EXCEPT ![scraperOf[t]] = r.sc]
          /\ fetchLog' = HeavyLogged(t, r, url, "entry", 0)
          /\ call' = [call EXCEPT
                        ![t].scan_soup = IF r.html # "" /\ ~ r.raised
                                           THEN Soup(url, "heavy") ELSE @,
                        ![t].pc = IF r.raised THEN "emergency"
                                  ELSE "entry_filters"]
  /\ UNCHANGED << site, calls, scraperOf, stack >>
  /\ Yield(t)
  /\ UNCHANGED << args, ret, db, search >>

\* Lines 116-125: the light tier gave nothing, the heavy tier as last resort.
EntryLastResort(t) ==
  /\ call[t].pc = "entry_lastresort"
  /\ MayRun(t)
  /\ \E o \in SeleniumOutcomes(Me(t), call[t].clean_url) :
       \E url \in {call[t].clean_url} :
       \E r \in {_extract_with_selenium(Me(t), url, o)} :
          /\ budget' = budget - SeleniumCost(Me(t), url, o)
          /\ scraper' = [scraper EXCEPT ![scraperOf[t]] = r.sc]
          /\ fetchLog' = HeavyLogged(t, r, url, "entry", 0)
          /\ call' = [call EXCEPT
                        ![t].scan_soup = IF r.html # "" /\ ~ r.raised
                                           THEN Soup(url, "heavy") ELSE @,
                        ![t].pc = IF r.raised THEN "emergency"
                                  ELSE IF r.html # "" THEN "entry_filters"
                                  ELSE "finish"]
  /\ UNCHANGED << site, calls, scraperOf, stack >>
  /\ Yield(t)
  /\ UNCHANGED << args, ret, db, search >>

\* Lines 127-148: filter detection, then the first _recursive_crawl call, of
\* the filtered URL when a filter form was found and of the root otherwise.
EntryFilters(t) ==
  /\ call[t].pc = "entry_filters"
  /\ MayRun(t)
  /\ \/ /\ budget > 0
        /\ budget' = budget - 1
        /\ call' = [call EXCEPT ![t].pc = "emergency"]
        /\ stack' = stack
     \/ /\ budget' = budget
        /\ \E search_url \in {_detect_and_fill_filters(
                                 Dom(call[t].scan_soup), call[t].clean_url,
                                 call[t].country)} :
              IF search_url # None
                THEN /\ call' = [call EXCEPT ![t].pc = "crawl_filtered"]
                     /\ stack' = [stack EXCEPT ![t] = << Frame(search_url, 0) >>]
                ELSE /\ call' = [call EXCEPT ![t].pc = "crawl_root"]
                     /\ stack' = [stack EXCEPT
                                    ![t] = << Frame(call[t].clean_url, 0) >>]
  /\ UNCHANGED << site, calls, scraperOf, scraper, fetchLog >>
  /\ Yield(t)
  /\ UNCHANGED << args, ret, db, search >>

\* `async with` exits on a return inside it (lines 79, 125, 145, 150); a
\* failure to close the crawler is caught like any other exception.
Finish(t) ==
  /\ call[t].pc = "finish"
  /\ MayRun(t)
  /\ \/ /\ budget > 0
        /\ budget' = budget - 1
        /\ call' = [call EXCEPT ![t].pc = "emergency"]
     \/ /\ budget' = budget
        /\ call' = [call EXCEPT ![t].pc = "done"]
  /\ stack' = [stack EXCEPT ![t] = <<>>]
  /\ UNCHANGED << site, calls, scraperOf, scraper, fetchLog >>
  /\ Yield(t)
  /\ UNCHANGED << args, ret, db, search >>

\* _find_job_cards, as far as the page model goes: the cards, capped.
_find_job_cards(dom) == Take(dom.cards, MAX_CARDS)

\* _extract_job_url_from_card: None for a card whose anchor has no href.
_extract_job_url_from_card(card) ==
  IF card.href # "" THEN _get_job_detail_url[card.href] ELSE None

RECURSIVE UniqueFrom(_, _)
UniqueFrom(seq, seen) ==
  IF seq = <<>> THEN <<>>
  ELSE IF Head(seq) \in seen THEN UniqueFrom(Tail(seq), seen)
  ELSE << Head(seq) >> \o UniqueFrom(Tail(seq), seen \cup {Head(seq)})

\* _find_job_links: each distinct job-like href, resolved to its detail URL.
_find_job_links(dom) ==
  LET u == UniqueFrom(dom.links, {}) IN
  [i \in 1..Len(u) |-> _get_job_detail_url[u[i]]]

\* Lines 181-190: the record the emergency path builds from a card.
CardRecord(card, job_url) ==
  [job_title |-> card.title,
   company |-> "Unknown - Extracted from Listing",
   location |-> "See Job Link",
   job_description |-> "Extracted via Selenium Fallback (Listing Only). Please visit link for details.",
   skills |-> <<>>, job_id |-> "", source_url |-> job_url]

\* Lines 197-206: the record the emergency path builds from a bare link.
LinkRecord(link) ==
  [job_title |-> "Job Link Found", company |-> "Unknown",
   location |-> "Unknown",
   job_description |-> "Link extracted via Selenium Fallback",
   skills |-> <<>>, job_id |-> "", source_url |-> link]

HasJobUrl(card) ==
  _extract_job_url_from_card(card) \notin {None, ""}

\* Lines 165-206: fallback_jobs as built from the heavy-tier page.
FallbackJobs(dom) ==
  LET cards == SelectSeq(_find_job_cards(dom), HasJobUrl)
      from_cards ==
        [i \in 1..Len(cards) |->
           CardRecord(cards[i], _extract_job_url_from_card(cards[i]))]
      links == Take(_find_job_links(dom), MAX_LISTING_LINKS)
  IN IF Len(from_cards) > 0 THEN from_cards
     ELSE [i \in 1..Len(links) |-> LinkRecord(links[i])]

\* Lines 152-162: the except branch; one heavy-tier request for the root.  An
\* exception that leaves _extract_with_selenium leaves the call too.
Emergency(t) ==
  /\ call[t].pc = "emergency"
  /\ MayRun(t)
  /\ \E url \in {_get_job_detail_url[call[t].site_url]} :
     \E o \in SeleniumOutcomes(Me(t), url) :
     \E r \in {_extract_with_selenium(Me(t), url, o)} :
       /\ budget' = budget - SeleniumCost(Me(t), url, o)
       /\ scraper' = [scraper EXCEPT ![scraperOf[t]] = r.sc]
       /\ fetchLog' = HeavyLogged(t, r, url, "emergency", 0)
       /\ call' = [call EXCEPT
                     ![t].crashed = TRUE,
                     ![t].clean_url = url,
                     ![t].scan_soup = IF r.html # "" /\ ~ r.raised
                                        THEN Soup(url, "heavy") ELSE NoneObj,
                     ![t].result = <<>>,
                     ![t].pc = IF r.raised THEN "raised"
                               ELSE IF r.html # "" THEN "emergency_cards"
                               ELSE "done"]
  /\ stack' = [stack EXCEPT ![t] = <<>>]
  /\ UNCHANGED << site, calls, scraperOf >>
  /\ Yield(t)
  /\ UNCHANGED << args, ret, db, search >>

\* Lines 163-208: card and link detection on the heavy-tier page, outside any
\* try; records are built without extraction or validation.
EmergencyCards(t) ==
  /\ call[t].pc = "emergency_cards"
  /\ MayRun(t)
  /\ \/ /\ budget > 0
        /\ budget' = budget - 1
        /\ call' = [call EXCEPT ![t].pc = "raised"]
     \/ /\ budget' = budget
        /\ call' = [call EXCEPT
                      ![t].result = FallbackJobs(Dom(call[t].scan_soup)),
                      ![t].pc = "done"]
  /\ UNCHANGED << site, calls, scraperOf, scraper, stack, fetchLog >>
  /\ Yield(t)
  /\ UNCHANGED << args, ret, db, search >>

(***************************************************************************)
(* _recursive_crawl ("visit")                                              *)
(***************************************************************************)
SetTop(t, f) == [stack EXCEPT ![t] = [@ EXCEPT ![Len(@)] = f]]

\* `return value` from the innermost activation.
Ret(f, value) == [f EXCEPT !.pc = "ret", !.res = value]

\* Line 374: the depth limit.
DepthExceededOffByOne(depth) == depth > MAX_DEPTH + 1
DepthExceeded(depth) == depth > MAX_DEPTH

\* Lines 374-390: whether the guards return before anything is fetched.
VisitStopsOnBlocklistOnly(sc, url, depth) == should_skip_url[url]
\* A variant without the visited_gateways test of line 389.
VisitStopsIgnoringGateways(sc, url, depth) ==
  \/ DepthExceeded(depth)
  \/ url \in sc.visited_urls
  \/ should_skip_url[url]
  \/ depth > LEGACY_DEPTH
  \/ url \in sc.seen_urls
VisitStops(sc, url, depth) ==
  \/ DepthExceeded(depth)
  \/ url \in sc.visited_urls
  \/ should_skip_url[url]
  \/ depth > LEGACY_DEPTH
  \/ url \in sc.seen_urls
  \/ url \in sc.visited_gateways

\* Lines 372-391: the guards.  The URL is recorded in visited_urls once the
\* depth and visited tests are passed, and in seen_urls once all are.
VisitGuard(t) ==
  /\ stack[t] # <<>>
  /\ Top(t).pc = "guard"
  /\ MayRun(t)
  /\ LET f == Top(t)
         sc == Me(t)
         recorded == ~ (DepthExceeded(f.depth) \/ f.url \in sc.visited_urls)
     IN \E stops \in {VisitStops(sc, f.url, f.depth)} :
        /\ scraper' = [scraper EXCEPT ![scraperOf[t]] =
                         [sc EXCEPT
                            !.visited_urls =
                               IF recorded THEN @ \cup {f.url} ELSE @,
                            !.seen_urls =
                               IF stops THEN @ ELSE @ \cup {f.url}]]
        /\ stack' = SetTop(t, IF stops THEN Ret(f, <<>>)
                              ELSE [f EXCEPT !.pc = "fetch"])
  /\ UNCHANGED << site, budget, calls, scraperOf, call, fetchLog >>
  /\ Yield(t)
  /\ UNCHANGED << args, ret, db, search >>

\* The escalation test of visit (line 423).
NeedsSelenium(url, dom) ==
  _is_spa_url[url] \/ dom.words < MIN_WORDS \/ dom.marker

\* Lines 398-423: the light-tier fetch of the page.
VisitFetch(t) ==
  /\ stack[t] # <<>>
  /\ Top(t).pc = "fetch"
  /\ MayRun(t)
  /\ LET f == Top(t) IN
     \E o \in LightOutcomes(f.url) :
       LET soup == Soup(f.url, "light") IN
       /\ budget' = budget - LightCost(f.url, o)
       /\ fetchLog' = IF o = "raise"
                         THEN Excepted(Logged(t, "light", f.url, "visit",
                                              f.depth), t, f)
                         ELSE Logged(t, "light", f.url, "visit", f.depth)
       /\ stack' = SetTop(t,
            IF o # "ok" THEN Ret(f, <<>>)
            ELSE [f EXCEPT !.soup = soup,
                           !.pc = IF NeedsSelenium(f.url, Dom(soup))
                                    THEN "escalate" ELSE "classify"])
  /\ UNCHANGED << site, calls, scraperOf, scraper, call >>
  /\ Yield(t)
  /\ UNCHANGED << args, ret, db, search >>

\* Lines 423-435: the heavy-tier retry inside visit.
VisitEscalate(t) ==
  /\ stack[t] # <<>>
  /\ Top(t).pc = "escalate"
  /\ MayRun(t)
  /\ LET f == Top(t) IN
     \E o \in SeleniumOutcomes(Me(t), f.url) :
     \E r \in {_extract_with_selenium(Me(t), f.url, o)} :
       /\ budget' = budget - SeleniumCost(Me(t), f.url, o)
       /\ scraper' = [scraper EXCEPT ![scraperOf[t]] = r.sc]
       /\ fetchLog' = IF r.raised
                         THEN Excepted(HeavyLogged(t, r, f.url, "visit",
                                                   f.depth), t, f)
                         ELSE HeavyLogged(t, r, f.url, "visit", f.depth)
       /\ stack' = SetTop(t,
            IF r.raised THEN Ret(f, <<>>)
            ELSE IF r.html # ""
              THEN [f EXCEPT !.soup = Soup(f.url, "heavy"), !.pc = "classify"]
            ELSE IF Dom(f.soup).words < GIVE_UP_WORDS THEN Ret(f, <<>>)
            ELSE [f EXCEPT !.pc = "classify"])
  /\ UNCHANGED << site, calls, scraperOf, call >>
  /\ Yield(t)
  /\ UNCHANGED << args, ret, db, search >>

\* _is_single_job_page
_is_single_job_page(dom) ==
  IF dom.joblist THEN FALSE
  ELSE IF dom.indicator THEN TRUE
  ELSE dom.content > 2 /\ Len(_find_job_cards(dom)) = 0

\* _find_category_links, as far as the page model goes: the links, capped.
_find_category_links(dom) == Take(dom.cats, MAX_CATEGORIES)

\* A variant that looks for job cards before the single-job heuristic.
_classify_page_type_cards_first(dom, url) ==
  IF dom.info /\ Len(_find_job_cards(dom)) = 0 THEN "CAREER_INFO"
  ELSE IF /\ ContainsAny[url, {"#/job", "#search", "myworkday", "taleo"}]
          /\ Len(_find_job_cards(dom)) = 0 THEN "JOB_SEARCH_APP"
  ELSE IF Len(_find_job_cards(dom)) > 0 THEN "JOB_LISTING"
  ELSE IF _is_single_job_page(dom) THEN "JOB_DETAIL"
  ELSE IF Len(_find_category_links(dom)) > 0 THEN "CAREER_GATEWAY"
  ELSE "OTHER"

\* _classify_page_type: the first matching rule wins.
_classify_page_type(dom, url) ==
  IF dom.info /\ Len(_find_job_cards(dom)) = 0 THEN "CAREER_INFO"
  ELSE IF /\ ContainsAny[url, {"#/job", "#search", "myworkday", "taleo"}]
          /\ Len(_find_job_cards(dom)) = 0 THEN "JOB_SEARCH_APP"
  ELSE IF _is_single_job_page(dom) THEN "JOB_DETAIL"
  ELSE IF Len(_find_job_cards(dom)) > 0 THEN "JOB_LISTING"
  ELSE IF Len(_find_category_links(dom)) > 0 THEN "CAREER_GATEWAY"
  ELSE "OTHER"

\* _create_job_from_json_ld: the record built from the JobPosting data of a
\* page.  json_data holds the keys the posting has (job_title for 'title',
\* company for the name of 'hiringOrganization', job_description for
\* 'description'); a missing title becomes '', the other missing keys their
\* placeholder.
_create_job_from_json_ld(json_data, job_url) ==
  LET get(k, default) == IF k \in DOMAIN json_data THEN json_data[k]
                         ELSE default
  IN [job_title |-> get("job_title", ""),
      company |-> get("company", "Company not specified"),
      location |-> get("location", "Location not specified"),
      job_description |-> get("job_description",
                              "Job description not available"),
      skills |-> get("skills", <<>>), job_id |-> "",
      source_url |-> job_url]

\* _extract_single_job on a parsed page: the scraper afterwards and the
\* record (None when the URL was extracted before, the page is an apply page
\* or the title is invalid).
_extract_single_job(sc, job_url, dom) ==
  IF job_url \in sc.visited_job_urls THEN [sc |-> sc, job |-> NoneObj]
  ELSE LET sc2 == [sc EXCEPT !.visited_job_urls = @ \cup {job_url}]
           job == [dom.job EXCEPT !.source_url = job_url]
       IN IF dom.apply THEN [sc |-> sc2, job |-> NoneObj]
          ELSE IF dom.jsonld
            THEN [sc |-> sc2,
                  job |-> _create_job_from_json_ld(dom.job, job_url)]
          ELSE IF _is_invalid_title[job.job_title]
            THEN [sc |-> sc2, job |-> NoneObj]
          ELSE [sc |-> sc2, job |-> job]

\* `job_data and self._validate_job(job_data, country)`
Accepted(job, country) == job # NoneObj /\ _validate_job(job, country)

\* The start of _extract_from_job_listing (lines 1063-1065) in frame f.
StartListing(f, dom) ==
  [f EXCEPT !.pc = "cards",
            !.cards = Take(_find_job_cards(dom), MAX_LISTING_CARDS),
            !.links = <<>>, !.visited = {}, !.jobs = <<>>]

\* A variant without the CAREER_INFO branch of lines 442-444.
VisitClassifyWithoutHardStop(t) ==
  /\ stack[t] # <<>>
  /\ Top(t).pc = "classify"
  /\ MayRun(t)
  /\ \/ /\ budget > 0
        /\ budget' = budget - 1
        /\ stack' = SetTop(t, Ret(Top(t), <<>>))
        /\ scraper' = scraper
        /\ fetchLog' = Excepted(fetchLog, t, Top(t))
     \/ /\ budget' = budget
        /\ fetchLog' = fetchLog
        /\ \E f \in {Top(t)}, sc \in {Me(t)} :
           \E dom \in {Dom(f.soup)} :
           \E page_type \in {_classify_page_type(dom, f.url)} :
           \E x \in {_extract_single_job(sc, f.url, dom)} :
           LET g == [f EXCEPT !.page_type = page_type]
           IN CASE page_type = "JOB_DETAIL" ->
                     /\ stack' = SetTop(t,
                          Ret(g, IF Accepted(x.job, call[t].country)
                                   THEN << x.job >> ELSE <<>>))
                     /\ scraper' = [scraper EXCEPT ![scraperOf[t]] = x.sc]
                [] page_type = "CAREER_GATEWAY" ->
                     /\ stack' = SetTop(t,
                          [g EXCEPT !.pc = "cats",
                                    !.cats = _find_category_links(dom),
                                    !.all_jobs = <<>>])
                     /\ scraper' = [scraper EXCEPT ![scraperOf[t]] =
                                      [sc EXCEPT !.visited_gateways =
                                                    @ \cup {f.url}]]
                [] OTHER ->
                     /\ stack' = SetTop(t, StartListing(g, dom))
                     /\ scraper' = scraper
  /\ UNCHANGED << site, calls, scraperOf, call >>
  /\ Yield(t)
  /\ UNCHANGED << args, ret, db, search >>

\* Lines 437-523: classification and dispatch on the page type.  An
\* exception while the page is processed is caught at line 525.
VisitClassify(t) ==
  /\ stack[t] # <<>>
  /\ Top(t).pc = "classify"
  /\ MayRun(t)
  /\ \/ /\ budget > 0
        /\ budget' = budget - 1
        /\ stack' = SetTop(t, Ret(Top(t), <<>>))
        /\ scraper' = scraper
        /\ fetchLog' = Excepted(fetchLog, t, Top(t))
     \/ /\ budget' = budget
        /\ fetchLog' = fetchLog
        /\ \E f \in {Top(t)}, sc \in {Me(t)} :
           \E dom \in {Dom(f.soup)} :
           \E page_type \in {_classify_page_type(dom, f.url)} :
           \E x \in {_extract_single_job(sc, f.url, dom)} :
           LET g == [f EXCEPT !.page_type = page_type]
           IN CASE page_type = "CAREER_INFO" ->
                     /\ stack' = SetTop(t, Ret(g, <<>>))
                     /\ scraper' = scraper
                [] page_type = "JOB_DETAIL" ->
                     /\ stack' = SetTop(t,
                          Ret(g, IF Accepted(x.job, call[t].country)
                                   THEN << x.job >> ELSE <<>>))
                     /\ scraper' = [scraper EXCEPT ![scraperOf[t]] = x.sc]
                [] page_type = "CAREER_GATEWAY" ->
                     /\ stack' = SetTop(t,
                          [g EXCEPT !.pc = "cats",
                                    !.cats = _find_category_links(dom),
                                    !.all_jobs = <<>>])
                     /\ scraper' = [scraper EXCEPT ![scraperOf[t]] =
                                      [sc EXCEPT !.visited_gateways =
                                                    @ \cup {f.url}]]
                [] OTHER ->
                     /\ stack' = SetTop(t, StartListing(g, dom))
                     /\ scraper' = scraper
  /\ UNCHANGED << site, calls, scraperOf, call >>
  /\ Yield(t)
  /\ UNCHANGED << args, ret, db, search >>

\* The depth handed to a recursive call (lines 477, 498, 520).
NextDepthSkipping(depth) == depth + 2
NextDepth(depth) == depth + 1

\* Lines 474-478, 494-499, 518-521: one turn of the loop over the category
\* links; a link that is not a visited gateway is crawled one level deeper.
VisitCategory(t) ==
  /\ stack[t] # <<>>
  /\ Top(t).pc = "cats"
  /\ Top(t).cats # <<>>
  /\ MayRun(t)
  /\ LET f == Top(t)
         cat == Head(f.cats)
         g == [f EXCEPT !.cats = Tail(@)]
     IN IF cat \in Me(t).visited_gateways
          THEN stack' = SetTop(t, g)
          ELSE /\ Len(stack[t]) < MaxStack
               /\ stack' = [stack EXCEPT ![t] =
                              Append(SubSeq(@, 1, Len(@) - 1) \o << g >>,
                                     Frame(cat, NextDepth(f.depth)))]
  /\ UNCHANGED << site, budget, calls, scraperOf, scraper, call, fetchLog >>
  /\ Yield(t)
  /\ UNCHANGED << args, ret, db, search >>

\* The loop over the category links is over: a gateway goes on to the jobs
\* on its own page (line 502), a fallback returns what it merged (479, 522).
CategoriesDone(t) ==
  /\ stack[t] # <<>>
  /\ Top(t).pc = "cats"
  /\ Top(t).cats = <<>>
  /\ MayRun(t)
  /\ LET f == Top(t) IN
     stack' = SetTop(t,
       IF f.page_type = "CAREER_GATEWAY"
         THEN StartListing(f, Dom(f.soup))
         ELSE Ret(f, _deduplicate_jobs(f.all_jobs)))
  /\ UNCHANGED << site, budget, calls, scraperOf, scraper, call, fetchLog >>
  /\ Yield(t)
  /\ UNCHANGED << args, ret, db, search >>

\* _extract_single_job_from_url (lines 1169-1187) when the fetch ends with
\* outcome o: the scraper afterwards and the record or None.
_extract_single_job_from_url(sc, job_url, o) ==
  IF o = "ok"
    THEN _extract_single_job(sc, job_url, Dom(Soup(job_url, "light")))
    ELSE [sc |-> sc, job |-> NoneObj]

\* A variant without the `visited` set of the call.
WantedWhateverVisited(f, job_url) ==
  job_url \notin {None, ""} /\ ~ _is_apply_url[job_url]

\* Lines 1071 and 1082: the URL is fetched by this listing pass.
Wanted(f, job_url) ==
  job_url \notin {None, ""} /\ job_url \notin f.visited /\ ~ _is_apply_url[job_url]

\* One detail fetch of listing extraction in frame f of task t.
DetailFetch(t, f, job_url, rest) ==
  \E o \in LightOutcomes(job_url) :
  \E x \in {_extract_single_job_from_url(Me(t), job_url, o)} :
    LET g == [rest EXCEPT !.visited = @ \cup {job_url}]
    IN /\ budget' = budget - LightCost(job_url, o)
       /\ fetchLog' = Logged(t, "light", job_url, "detail", f.depth)
       /\ scraper' = [scraper EXCEPT ![scraperOf[t]] = x.sc]
       /\ stack' = SetTop(t,
            IF Accepted(x.job, call[t].country)
              THEN [g EXCEPT !.jobs = Append(@, x.job)] ELSE g)

\* Lines 1069-1076: one turn of the loop over the job cards.
ListingCard(t) ==
  /\ stack[t] # <<>>
  /\ Top(t).pc = "cards"
  /\ Top(t).cards # <<>>
  /\ MayRun(t)
  /\ \E job_url \in {_extract_job_url_from_card(Head(Top(t).cards))} :
     LET f == Top(t)
         rest == [f EXCEPT !.cards = Tail(@)]
     IN IF Wanted(f, job_url)
          THEN DetailFetch(t, f, job_url, rest)
          ELSE /\ stack' = SetTop(t, rest)
               /\ UNCHANGED << budget, fetchLog, scraper >>
  /\ UNCHANGED << site, calls, scraperOf, call >>
  /\ Yield(t)
  /\ UNCHANGED << args, ret, db, search >>

\* Lines 1079-1081: the cards are done; with fewer than 3 jobs the job links
\* of the page are tried as well.
ListingCardsDone(t) ==
  /\ stack[t] # <<>>
  /\ Top(t).pc = "cards"
  /\ Top(t).cards = <<>>
  /\ MayRun(t)
  /\ LET f == Top(t) IN
     stack' = SetTop(t,
       [f EXCEPT !.pc = "links",
                 !.links = IF Len(f.jobs) < 3
                             THEN Take(_find_job_links(Dom(f.soup)),
                                       MAX_LISTING_LINKS)
                             ELSE <<>>])
  /\ UNCHANGED << site, budget, calls, scraperOf, scraper, call, fetchLog >>
  /\ Yield(t)
  /\ UNCHANGED << args, ret, db, search >>

\* Lines 1081-1087: one turn of the loop over the job links.
ListingLink(t) ==
  /\ stack[t] # <<>>
  /\ Top(t).pc = "links"
  /\ Top(t).links # <<>>
  /\ MayRun(t)
  /\ LET f == Top(t)
         link == Head(f.links)
         rest == [f EXCEPT !.links = Tail(@)]
     IN IF Wanted(f, link)
          THEN DetailFetch(t, f, link, rest)
          ELSE /\ stack' = SetTop(t, rest)
               /\ UNCHANGED << budget, fetchLog, scraper >>
  /\ UNCHANGED << site, calls, scraperOf, call >>
  /\ Yield(t)
  /\ UNCHANGED << args, ret, db, search >>

\* _extract_from_job_listing has returned (line 1089); what the branch
\* that called it does with the jobs (lines 451, 468-483, 502-505, 512-523).
ListingDone(t) ==
  /\ stack[t] # <<>>
  /\ Top(t).pc = "links"
  /\ Top(t).links = <<>>
  /\ MayRun(t)
  /\ LET f == Top(t)
         category_links == _find_category_links(Dom(f.soup))
     IN stack' = SetTop(t,
          CASE f.page_type = "JOB_SEARCH_APP" -> Ret(f, f.jobs)
            [] f.page_type = "CAREER_GATEWAY" ->
                 Ret(f, _deduplicate_jobs(f.all_jobs \o f.jobs))
            [] OTHER ->
                 IF Len(f.jobs) = 0 /\ Len(category_links) > 0
                   THEN [f EXCEPT !.pc = "cats", !.cats = category_links,
                                  !.all_jobs = <<>>]
                   ELSE Ret(f, f.jobs))
  /\ UNCHANGED << site, budget, calls, scraperOf, scraper, call, fetchLog >>
  /\ Yield(t)
  /\ UNCHANGED << args, ret, db, search >>

\* A variant in which a branch that came back empty ends the loop over the
\* remaining category links.
ReturnToParentEndingLoop(t) ==
  /\ Len(stack[t]) > 1
  /\ Top(t).pc = "ret"
  /\ MayRun(t)
  /\ stack' = [stack EXCEPT ![t] =
       LET n == Len(@) IN
       SubSeq(@, 1, n - 2)
         \o << IF stack[t][n].res = <<>>
                 THEN [@[n - 1] EXCEPT !.cats = <<>>]
                 ELSE [@[n - 1] EXCEPT !.all_jobs = @ \o stack[t][n].res] >>]
  /\ UNCHANGED << site, budget, calls, scraperOf, scraper, call, fetchLog >>
  /\ Yield(t)
  /\ UNCHANGED << args, ret, db, search >>

\* A recursive call returns to the loop that made it (lines 477-478,
\* 498-499, 520-521): all_jobs.extend(jobs).
ReturnToParent(t) ==
  /\ Len(stack[t]) > 1
  /\ Top(t).pc = "ret"
  /\ MayRun(t)
  /\ stack' = [stack EXCEPT ![t] =
       LET n == Len(@) IN
       SubSeq(@, 1, n - 2)
         \o << [@[n - 1] EXCEPT !.all_jobs = @ \o stack[t][n].res] >>]
  /\ UNCHANGED << site, budget, calls, scraperOf, scraper, call, fetchLog >>
  /\ Yield(t)
  /\ UNCHANGED << args, ret, db, search >>

\* A variant that crawls the root after the filtered URL whatever the
\* filtered crawl found.
ReturnToEntryAlwaysRollingBack(t) ==
  /\ Len(stack[t]) = 1
  /\ Top(t).pc = "ret"
  /\ MayRun(t)
  /\ IF call[t].pc = "crawl_filtered"
       THEN /\ call' = [call EXCEPT ![t].pc = "crawl_root"]
            /\ stack' = [stack EXCEPT ![t] = << Frame(call[t].clean_url, 0) >>]
       ELSE /\ call' = [call EXCEPT ![t].pc = "finish",
                                    ![t].result = Top(t).res]
            /\ stack' = [stack EXCEPT ![t] = <<>>]
  /\ UNCHANGED << site, budget, calls, scraperOf, scraper, fetchLog >>
  /\ Yield(t)
  /\ UNCHANGED << args, ret, db, search >>

\* The depth-0 call returns to extract_jobs_from_site (lines 136-150): an
\* empty filtered crawl is followed by a crawl of the root, anything else is
\* the result.
ReturnToEntry(t) ==
  /\ Len(stack[t]) = 1
  /\ Top(t).pc = "ret"
  /\ MayRun(t)
  /\ IF call[t].pc = "crawl_filtered" /\ Len(Top(t).res) = 0
       THEN /\ call' = [call EXCEPT ![t].pc = "crawl_root"]
            /\ stack' = [stack EXCEPT ![t] = << Frame(call[t].clean_url, 0) >>]
       ELSE /\ call' = [call EXCEPT ![t].pc = "finish",
                                    ![t].result = Top(t).res]
            /\ stack' = [stack EXCEPT ![t] = <<>>]
  /\ UNCHANGED << site, budget, calls, scraperOf, scraper, fetchLog >>
  /\ Yield(t)
  /\ UNCHANGED << args, ret, db, search >>

(***************************************************************************)
(* Specifications                                                          *)
(***************************************************************************)
\* One step of the crawl of task t.
CrawlStep(t) ==
  \/ Start(t)
  \/ EntryFetch(t)
  \/ EntryEscalate(t)
  \/ EntryLastResort(t)
  \/ EntryFilters(t)
  \/ Finish(t)
  \/ Emergency(t)
  \/ EmergencyCards(t)
  \/ VisitGuard(t)
  \/ VisitFetch(t)
  \/ VisitEscalate(t)
  \/ VisitClassify(t)
  \/ VisitCategory(t)
  \/ CategoriesDone(t)
  \/ ListingCard(t)
  \/ ListingCardsDone(t)
  \/ ListingLink(t)
  \/ ListingDone(t)
  \/ ReturnToParent(t)
  \/ ReturnToEntry(t)

InitWith(schedules, faults) ==
  /\ site \in 1..Len(Sites)
  /\ budget \in 0..faults
  /\ calls = 0
  /\ scraperOf \in schedules
  /\ scraper = [s \in Scrapers |-> NewScraper]
  /\ call = [t \in Tasks |-> IdleCall]
  /\ stack = [t \in Tasks |-> <<>>]
  /\ running = 0
  /\ fetchLog = [t \in Tasks |-> <<>>]
  /\ args = NoneObj
  /\ ret = <<>>
  /\ db = NewDb
  /\ search = NewSearch

\* One caller making its calls one after the other on one scraper object.
Init == InitWith({[t \in Tasks |-> 1]}, MaxFaults)

Next == Call(1) \/ CrawlStep(1)

Spec == Init /\ [][Next]_vars

\* A crawl that has started keeps taking steps: the event loop resumes the
\* coroutine whenever the fetch it awaits has returned.
FairSpec == Spec /\ WF_vars(CrawlStep(1))

\* Two callers whose crawls interleave at the awaits, on one scraper object
\* or on one each.
InitConc ==
  InitWith({[t \in Tasks |-> 1], [t \in Tasks |-> t]}, MaxFaultsConc)

NextConc == \E t \in Tasks : Call(t) \/ CrawlStep(t)

SpecConc == InitConc /\ [][NextConc]_vars

(***************************************************************************)
(* The helpers called on their own: one call of a pure helper with         *)
(* arguments drawn from a bounded set, outside any crawl.                  *)
(***************************************************************************)
SeqsUpTo(S, n) == UNION {[1..k -> S] : k \in 0..n}

\* Records as _deduplicate_jobs reads them: an identifier ("" when the record
\* has none), and the three fields of the composite key.  One identifier is
\* spelled like a composite key.
DedupRecords ==
  {[job_id |-> i, job_title |-> t, location |-> "Berlin", company |-> "Acme"] :
     i \in {"", "7", "Data Intern_Berlin_Acme"},
     t \in {"Data Intern", "ML Intern"}}

DedupArgs ==
  {[fn |-> "_deduplicate_jobs", jobs |-> L] : L \in SeqsUpTo(DedupRecords, MaxJobs)}

\* Descriptions: 300 characters; 60 characters; 300 characters and a
\* marketing phrase; 300 characters and application-form language.
Desc300 == SubSeq(Text300, 1, 300)
DescCulture == Desc300 \o " Read more about our culture."
DescForm == Desc300 \o " Please fill in the application form."

\* Records as _score_job and _validate_job read them.
JobRecords ==
  {[job_title |-> t, company |-> "Acme", location |-> l,
    job_description |-> d, skills |-> k, job_id |-> "", source_url |-> Job1] :
     t \in {"", "Jobs", "Data Intern", "Graduate Trainee"},
     l \in {"", "Remote", "Location not specified", "Austin, TX"},
     d \in {Desc300, Text60, DescCulture, DescForm},
     k \in {<<>>, << "SQL" >>}}

ScoreArgs == {[fn |-> "_score_job", job |-> j] : j \in JobRecords}

ValidateArgs ==
  {[fn |-> "_validate_job", job |-> j, country |-> Germany] : j \in JobRecords}
  \cup
  {[fn |-> "_validate_job", job |-> [JobIntern EXCEPT !.location = l],
    country |-> c] :
     l \in {"Berlin, Germany", "Munich, GERMANY", "Austin, TX", "remote",
            "WORLDWIDE", "Remote, Austin, TX", "Worldwide (US only)"},
     c \in {Germany, ""}}

\* Titles handed to matches_target_role; those of test_scraper_filters.py
\* among them.
Titles ==
  {"", "Software Engineering Intern", "Data Science Co-op",
   "Summer 2026 Internet Trainee", "Graduate Researcher", "Software Engineer",
   "Senior Software Intern", "Lead Intern", "Director of Interns",
   "Intern Manager", "summer intern", "Sr. Data Intern", "Sr Data Intern",
   "Staff Apprentice", "Principal Fellowship", "Student Architect",
   "VP Intern", "Head of Trainees", "Executive Trainee", "Chief Intern",
   "Partner Student", "Working Student"}

MatchArgs ==
  {[fn |-> "matches_target_role", title |-> t, mode |-> "internship"] :
     t \in Titles}

\* Pages handed to _classify_page_type: every combination of the features
\* it looks at, under a plain URL and under a hash-routed one.
ClassifyDoms ==
  {[BlankPage EXCEPT !.info = i, !.cards = c, !.joblist = l,
                     !.indicator = d, !.content = n, !.cats = g] :
     i \in BOOLEAN, c \in {<<>>, << Card(Job1, "Data Intern") >>},
     l \in BOOLEAN, d \in BOOLEAN, n \in {0, 3},
     g \in {<<>>, << HubA >>}}

ClassifyArgs ==
  {[fn |-> "_classify_page_type", dom |-> p, url |-> u] :
     p \in ClassifyDoms, u \in {Root, SpaRoot}}

\* Arguments of sanitize_url and of is_valid_job; those of
\* test_scraper_filters.py among them.
FilterArgs ==
  {[fn |-> "sanitize_url", url |-> u] :
     u \in {None, "", "   ", "https://example.com", "http://test.co.uk/job",
            "  https://example.com  ", "HTTPS://Example.com/Jobs",
            " Http://a.de/jobs", "mailto:user@example.com", "tel:1234567890",
            "javascript:void(0)", " JavaScript:void(0)",
            "data:image/png;base64,...", "#section", "ftp://example.com",
            "/jobs/1", "example.com/jobs", "http:/a.de", "httpx://a.de",
            "see https://example.com"}}
  \cup
  {[fn |-> "is_valid_job",
    job |-> [job_title |-> t, company |-> c, job_description |-> d]] :
     t \in {"", "Software Engineer", "YourAdChoices Statistics",
            "Privacy Policy", "Intern Privacy"},
     c \in {"", "Tech Corp", "Opt Out Media", "Policy Lab"},
     d \in {"", "Too short", SubSeq(Text50, 1, 49), Text50, Text300,
            "This is the privacy policy of the company, nothing else.",
            "Responsibilities: keeping the privacy policy up to date."}}
  \cup
  {[fn |-> "is_valid_job", job |-> j] :
     j \in {[job_title |-> "Engineer"], [company |-> "Corp"],
            [title |-> "Engineer", company |-> "Corp", description |-> Text60],
            [title |-> "Engineer", company |-> "Corp",
             description |-> "Too short"]}}

\* Arguments of save_jobs (the records are drawn turn by turn) and of
\* _find_companies.
AgentArgs ==
  {[fn |-> "save_jobs", country |-> Germany]}
    \cup {[fn |-> "_find_companies", country |-> Germany, limit |-> n] :
            n \in 0..MaxLimit}
    \cup {[fn |-> "_save_job_profiles", country |-> Germany,
           job_profiles |-> p] :
            p \in {<<>>,
                   << [JobIntern EXCEPT !.source_url = Job1] >>,
                   << [JobIntern EXCEPT !.source_url = Job1],
                      [JobIntern EXCEPT !.job_title = "Platform Intern",
                                        !.source_url = Job5] >>,
                   << [JobIntern EXCEPT !.source_url = Job1],
                      [JobIntern EXCEPT !.source_url = Job5] >>,
                   << [JobIntern EXCEPT !.source_url = Job1],
                      [JobSenior EXCEPT !.source_url = Job4],
                      [JobIntern EXCEPT !.job_title = "Platform Intern",
                                        !.company = "Bolt",
                                        !.source_url = Job5] >>,
                   << [JobIntern EXCEPT !.source_url = Job1],
                      [JobIntern EXCEPT !.job_title = "Platform Intern",
                                        !.source_url = Job5],
                      [JobIntern EXCEPT !.job_title = "Finance Intern",
                                        !.source_url = Job2] >>}}

\* Arguments of _extract_single_job: detail pages with JobPosting data
\* (complete, without a title, with an unnamed hiring organization, with an
\* empty description) and without (the DOM path: a complete posting, one
\* without a usable heading, one whose description element is empty), and an
\* apply page.
ExtractArgs ==
  {[fn |-> "_extract_single_job", job_url |-> Job1, page |-> p] :
     p \in {[DetailPage(j) EXCEPT !.jsonld = TRUE] :
              j \in {JobIntern,
                     [company |-> "Acme", location |-> "Berlin, Germany",
                      job_description |-> Text300],
                     [job_title |-> "Data Intern", company |-> "",
                      job_description |-> Text300],
                     [job_title |-> "Data Intern", company |-> "Acme",
                      job_description |-> ""],
                     [job_title |-> "Data Intern"]}}
         \cup {DetailPage(j) :
                 j \in {JobIntern,
                        [JobIntern EXCEPT
                           !.job_title = "Job Title Not Available"],
                        [JobIntern EXCEPT !.job_description = ""]}}
         \cup {[DetailPage(JobIntern) EXCEPT !.apply = TRUE]}}

HelperArgs ==
  DedupArgs \cup ScoreArgs \cup ValidateArgs \cup MatchArgs \cup ClassifyArgs
    \cup FilterArgs \cup AgentArgs \cup ExtractArgs

InitHelper ==
  /\ site = 1
  /\ budget = 0
  /\ calls = 0
  /\ scraperOf = [t \in Tasks |-> 1]
  /\ scraper = [s \in Scrapers |-> NewScraper]
  /\ call = [t \in Tasks |-> IdleCall]
  /\ stack = [t \in Tasks |-> <<>>]
  /\ running = 0
  /\ fetchLog = [t \in Tasks |-> <<>>]
  /\ args \in HelperArgs
  /\ ret = <<>>
  /\ db = NewDb
  /\ search = NewSearch

Returns(value) ==
  /\ ret' = Append(ret, value)
  /\ UNCHANGED << site, budget, calls, scraperOf, scraper, call, stack,
                  running, fetchLog, args, db, search >>

\* _deduplicate_jobs(jobs), and then _deduplicate_jobs of what it returned.
Deduplicate ==
  /\ args.fn = "_deduplicate_jobs"
  /\ Len(ret) < 2
  /\ Returns(_deduplicate_jobs(IF ret = <<>> THEN args.jobs ELSE ret[1]))

\* _score_job(job_data)
Score ==
  /\ args.fn = "_score_job"
  /\ ret = <<>>
  /\ Returns(_score_job(args.job))

\* _validate_job(job_data, country)
Validate ==
  /\ args.fn = "_validate_job"
  /\ ret = <<>>
  /\ Returns(_validate_job(args.job, args.country))

\* matches_target_role(title, mode)
MatchesTargetRole ==
  /\ args.fn = "matches_target_role"
  /\ ret = <<>>
  /\ Returns(matches_target_role[args.title, args.mode])

\* _classify_page_type(soup, url)
Classify ==
  /\ args.fn = "_classify_page_type"
  /\ ret = <<>>
  /\ Returns(_classify_page_type(args.dom, args.url))

\* sanitize_url(url)
SanitizeUrl ==
  /\ args.fn = "sanitize_url"
  /\ ret = <<>>
  /\ Returns(sanitize_url[args.url])

\* is_valid_job(job_dict)
IsValidJob ==
  /\ args.fn = "is_valid_job"
  /\ ret = <<>>
  /\ Returns(is_valid_job(args.job))

\* save_jobs(jobs, country) is called with a list of up to MaxBatch records
\* (lines 57-62).
SaveJobsBegin ==
  /\ args.fn = "save_jobs"
  /\ ~ db.saving
  /\ \E n \in 0..MaxBatch :
       db' = [db EXCEPT !.saving = TRUE, !.jobs_left = n, !.job = NoneObj,
                        !.saved_count = 0, !.updated_count = 0]
  /\ ret' = <<>>
  /\ UNCHANGED << site, budget, calls, scraperOf, scraper, call, stack,
                  running, fetchLog, args, search >>

\* One turn of the loop over the list (lines 64-116), on its next record.
SaveJob ==
  /\ args.fn = "save_jobs"
  /\ db.saving
  /\ db.jobs_left > 0
  /\ \E job \in {[job_id |-> i, company |-> c, title |-> t] :
                    i \in {"", "j1"}, c \in {"Acme", "Bolt"},
                    t \in {"Data Intern", "ML Intern", None}} :
       db' = [save_row(db, job, args.country) EXCEPT !.jobs_left = @ - 1]
  /\ UNCHANGED << site, budget, calls, scraperOf, scraper, call, stack,
                  running, fetchLog, args, ret, search >>

\* Lines 118-124: commit, close, return saved_count.
SaveJobsEnd ==
  /\ args.fn = "save_jobs"
  /\ db.saving
  /\ db.jobs_left = 0
  /\ db' = [db EXCEPT !.saving = FALSE]
  /\ ret' = << db.saved_count >>
  /\ UNCHANGED << site, budget, calls, scraperOf, scraper, call, stack,
                  running, fetchLog, args, search >>

\* One turn of the while loop of _find_companies (lines 81-128): a request
\* that fails, or a page of results.
FindCompaniesTurn ==
  /\ args.fn = "_find_companies"
  /\ search.pc = "loop"
  /\ Len(search.companies) < args.limit
  /\ LET remaining == args.limit - Len(search.companies)
         num_to_fetch == IF remaining * 2 < BATCH_SIZE THEN remaining * 2
                         ELSE BATCH_SIZE
     IN \E response \in
             {[ok |-> FALSE, organic |-> <<>>]}
               \cup {[ok |-> TRUE, organic |-> o] :
                       o \in SeqsUpTo(
                         {[link |-> "https://careers.acme.com/jobs",
                           title |-> "Acme Careers"],
                          [link |-> "https://Careers.Acme.com/students",
                           title |-> "Students at Acme"],
                          [link |-> "https://bolt.io/about",
                           title |-> "Bolt news"],
                          [link |-> "https://bolt.io/hiring?x=1",
                           title |-> "Bolt"],
                          [link |-> "https://cargo.org",
                           title |-> "Employment at Cargo"]}, MaxResults)} :
          IF ~ response.ok THEN search' = [search EXCEPT !.pc = "break"]
          ELSE \E s \in {TakeCompanies(
                            response.organic,
                            [search EXCEPT !.new_companies_found = FALSE],
                            args.limit)} :
                 search' =
                   IF ~ s.new_companies_found
                        /\ Len(response.organic) < num_to_fetch
                     THEN [s EXCEPT !.pc = "break"]
                   ELSE IF s.start + num_to_fetch > args.limit * 5
                     THEN [s EXCEPT !.start = @ + num_to_fetch, !.pc = "break"]
                   ELSE [s EXCEPT !.start = @ + num_to_fetch]
  /\ UNCHANGED << site, budget, calls, scraperOf, scraper, call, stack,
                  running, fetchLog, args, ret, db >>

\* Line 132: the loop is over (its condition fails, or a break).
FindCompaniesReturn ==
  /\ args.fn = "_find_companies"
  /\ \/ search.pc = "break"
     \/ search.pc = "loop" /\ Len(search.companies) >= args.limit
  /\ search' = [search EXCEPT !.pc = "done"]
  /\ ret' = << search.companies >>
  /\ UNCHANGED << site, budget, calls, scraperOf, scraper, call, stack,
                  running, fetchLog, args, db >>

\* _extract_single_job(job_url, soup, crawler), and then once more for the
\* same URL.
ExtractSingleJob ==
  /\ args.fn = "_extract_single_job"
  /\ Len(ret) < 2
  /\ \E x \in {_extract_single_job(scraper[1], args.job_url, args.page)} :
       /\ scraper' = [scraper EXCEPT ![1] = x.sc]
       /\ ret' = Append(ret, x.job)
  /\ UNCHANGED << site, budget, calls, scraperOf, call, stack, running,
                  fetchLog, args, db, search >>

\* _save_job_profiles(job_profiles, country): no await between its steps.
SaveJobProfiles ==
  /\ args.fn = "_save_job_profiles"
  /\ ret = <<>>
  /\ \E r \in {_save_job_profiles(db, args.job_profiles, args.country)} :
       /\ db' = r.db
       /\ ret' = << r.saved_count >>
  /\ UNCHANGED << site, budget, calls, scraperOf, scraper, call, stack,
                  running, fetchLog, args, search >>

NextHelper ==
  \/ Deduplicate \/ Score \/ Validate \/ MatchesTargetRole \/ Classify
  \/ SanitizeUrl \/ IsValidJob \/ ExtractSingleJob
  \/ SaveJobsBegin \/ SaveJob \/ SaveJobsEnd \/ SaveJobProfiles
  \/ FindCompaniesTurn \/ FindCompaniesReturn

SpecHelper == InitHelper /\ [][NextHelper]_vars

(***************************************************************************)
(* Properties of one caller's crawls (Spec, FairSpec)                      *)
(***************************************************************************)
Frames(t) == {stack[t][i] : i \in 1..Len(stack[t])}

Fetches(t, tier) ==
  {i \in 1..Len(fetchLog[t]) : fetchLog[t][i].tier = tier}

Records(seq) == {seq[i] : i \in 1..Len(seq)}

\* C1: extract_jobs_from_site never raises: no call ends with an exception
\* leaving it, whatever fails and wherever (as the specification states it).
NeverRaises == call[1].pc # "raised"

\* C2: within one call no URL is fetched at the light tier more than once,
\* counting the entry fetch, the fetches of visit and the detail fetches of
\* listing extraction (as the specification states it).
NoRepeatedLightFetch ==
  \A i, j \in Fetches(1, "light") :
    fetchLog[1][i].url = fetchLog[1][j].url => i = j

\* C3: within one call the heavy-tier browser is launched at most once per
\* URL: the launches of a call are for distinct URLs, each launch is recorded
\* in used_selenium_for_url, and a request turned down as a repeat follows a
\* launch for the same URL.
HeavyOncePerUrl ==
  /\ \A i, j \in Fetches(1, "heavy") :
       fetchLog[1][i].url = fetchLog[1][j].url => i = j
  /\ \A i \in Fetches(1, "heavy") :
       fetchLog[1][i].url \in Me(1).used_selenium_for_url
  /\ \A j \in Fetches(1, "repeat") :
       \E i \in Fetches(1, "heavy") :
         i < j /\ fetchLog[1][i].url = fetchLog[1][j].url

\* A second heavy-tier request for a URL was made and launched nothing.
HeavyRepeatTurnedDown ==
  \E i \in Fetches(1, "heavy") : \E j \in Fetches(1, "repeat") :
    /\ i < j
    /\ fetchLog[1][i].url = fetchLog[1][j].url
    /\ fetchLog[1][i].by = "entry"
    /\ fetchLog[1][j].by = "visit"

\* C4: a crawl terminates: a call that has started ends, and when no fetch
\* fails or crashes it ends by returning.
Terminates ==
  /\ (call[1].pc = "start") ~> (call[1].pc \in {"done", "raised"})
  /\ (call[1].pc = "start" /\ budget = 0) ~> (call[1].pc = "done")

\* A link back to the root was followed at depth 2 and stopped on the
\* visited-URL set: the root was fetched by visit once only.
CycleCutByVisitedSet ==
  /\ Len(stack[1]) = 3
  /\ Top(1).url = call[1].clean_url
  /\ Top(1).depth = MAX_DEPTH
  /\ Top(1).pc = "ret"
  /\ Cardinality({i \in Fetches(1, "light") :
                    /\ fetchLog[1][i].url = Top(1).url
                    /\ fetchLog[1][i].by = "visit"}) = 1

\* C5 (as the specification states it): every visit receives a depth of at
\* most maxDepth.
DepthArgumentAtMostMaxDepth == \A f \in Frames(1) : f.depth <= MAX_DEPTH

\* C5 (amended): every visit receives a depth of at most maxDepth + 1; the
\* recursion of a depth-2 page hands depth 3 to its children.
DepthArgumentAtMostMaxDepthPlusOne ==
  \A f \in Frames(1) : f.depth <= MAX_DEPTH + 1

\* A visit has just been called with depth maxDepth + 1.
VisitCalledBeyondMaxDepth ==
  /\ stack[1] # <<>>
  /\ Top(1).depth = MAX_DEPTH + 1
  /\ Top(1).pc = "guard"

\* C6: a visit called with a depth beyond maxDepth returns the empty list
\* without fetching, and no fetch of a visit (its own or a detail fetch of its
\* listing extraction) happens deeper than maxDepth.
NoFetchBeyondMaxDepth ==
  /\ \A f \in Frames(1) :
       f.depth > MAX_DEPTH =>
         \/ f.pc = "guard"
         \/ f.pc = "ret" /\ f.res = <<>> /\ f.soup = NoneObj
  /\ \A i \in 1..Len(fetchLog[1]) : fetchLog[1][i].depth <= MAX_DEPTH

\* A visit called with depth maxDepth + 1 has returned.
DeepVisitReturned ==
  /\ stack[1] # <<>>
  /\ Top(1).depth = MAX_DEPTH + 1
  /\ Top(1).pc = "ret"
  /\ Top(1).res = <<>>

\* C7: no record with a confidence score below 3 is accepted by listing
\* extraction or returned by a visit (as the specification states it).
ScoreGate ==
  \A f \in Frames(1) :
    \A r \in Records(f.jobs) \cup Records(f.res) : _score_job(r) >= 3

\* What C8 asks of a returned record, in its own words.
MeetsGate(r, country) ==
  /\ r.job_title # ""
  /\ r.company # ""
  /\ ContainsAny[Lower[r.job_title], allowed_terms]
  /\ ~ ContainsAny[Lower[r.job_title], forbidden_terms]
  /\ \/ Contains[Lower[r.location], Lower[country]]
     \/ ContainsAny[Lower[r.location], {"remote", "worldwide", "not specified"}]

SessionEmptyAtStart ==
  call[1].pc = "start" =>
    /\ Me(1).visited_urls = {}
    /\ Me(1).visited_gateways = {}
    /\ Me(1).visited_job_urls = {}
    /\ Me(1).used_selenium_for_url = {}

\* The key of a record the crawl built: such a record has no identifier, so
\* its key is the composite (title, location, company).
CompositeKey(r) == << r.job_title, r.location, r.company >>

\* C14: the list returned by extract_jobs_from_site never holds two records
\* with the same key; stated here of the crawls that returned without
\* entering the emergency path (as the specification states it).
ReturnedListDeduplicated ==
  (call[1].pc = "done" /\ ~ call[1].crashed) =>
    \A i, j \in 1..Len(call[1].result) :
      CompositeKey(call[1].result[i]) = CompositeKey(call[1].result[j])
        => i = j

\* C15: no URL with an /apply or /application segment is fetched, at either
\* tier (as the specification states it).
NoApplyUrlFetched ==
  \A i \in Fetches(1, "light") \cup Fetches(1, "heavy") :
    ~ _is_apply_url[fetchLog[1][i].url]

\* C20: a visit that classifies its page as CAREER_INFO returns the empty
\* list at once, and between that return and the caller's next step nothing
\* is fetched, extracted or visited, whatever links the page holds.
CareerInfoHardStop ==
  [][ /\ ( /\ stack[1] # <<>>
           /\ Top(1).pc = "classify"
           /\ budget' = budget
           /\ _classify_page_type(Dom(Top(1).soup), Top(1).url) = "CAREER_INFO" )
        => /\ Len(stack'[1]) = Len(stack[1])
           /\ stack'[1][Len(stack'[1])] =
                [Top(1) EXCEPT !.pc = "ret", !.res = <<>>,
                               !.page_type = "CAREER_INFO"]
           /\ fetchLog' = fetchLog
           /\ scraper' = scraper
      /\ ( /\ stack[1] # <<>>
           /\ Top(1).pc = "ret"
           /\ Top(1).page_type = "CAREER_INFO" )
        => /\ fetchLog' = fetchLog
           /\ scraper' = scraper
           /\ \A i \in 1..Len(stack'[1]) :
                stack'[1][i].page_type # "CAREER_INFO" ]_vars

\* A page with category links was classified CAREER_INFO and its visit has
\* returned the empty list.
CareerInfoReturned ==
  /\ stack[1] # <<>>
  /\ Top(1).page_type = "CAREER_INFO"
  /\ Top(1).pc = "ret"
  /\ Top(1).res = <<>>
  /\ Dom(Top(1).soup).cats # <<>>

\* The last log entry of the step is an exception caught by visit.
CaughtNow ==
  /\ Len(fetchLog'[1]) > Len(fetchLog[1])
  /\ fetchLog'[1][Len(fetchLog'[1])].tier = "except"

\* Every record of jobs is in res, or res holds a record of the same
\* identifier or the same composite key.
Kept(jobs, res) ==
  \A j \in Records(jobs) :
    \E k \in Records(res) :
      \/ k = j
      \/ k.job_id # "" /\ k.job_id = j.job_id
      \/ CompositeKey(k) = CompositeKey(j)

\* C21: an exception in one child branch is caught in that branch, which
\* returns an empty list and leaves its callers as they were; the parent
\* takes the result, keeps its remaining links, goes on to the next one, and
\* returns the jobs its children found.
BranchCrashIsLocal ==
  [][LET n == Len(stack[1]) IN
     /\ (n > 1 /\ CaughtNow) =>
          /\ stack' = SetTop(1, Ret(Top(1), <<>>))
          /\ call' = call
     /\ (n > 1 /\ Top(1).pc = "ret") =>
          /\ Len(stack'[1]) = n - 1
          /\ SubSeq(stack'[1], 1, n - 2) = SubSeq(stack[1], 1, n - 2)
          /\ stack'[1][n - 1] =
               [stack[1][n - 1] EXCEPT !.all_jobs = @ \o Top(1).res]
          /\ call' = call
     /\ (/\ n >= 1
         /\ Top(1).pc = "cats"
         /\ Top(1).cats # <<>>
         /\ Head(Top(1).cats) \notin Me(1).visited_gateways) =>
          /\ Len(stack'[1]) = n + 1
          /\ stack'[1][n + 1].url = Head(Top(1).cats)
          /\ stack'[1][n + 1].pc = "guard"
          /\ stack'[1][n] = [Top(1) EXCEPT !.cats = Tail(@)]
     /\ (/\ n >= 1
         /\ Top(1).pc \in {"cats", "cards", "links"}
         /\ Len(stack'[1]) = n
         /\ stack'[1][n].pc = "ret") =>
          Kept(Top(1).all_jobs, stack'[1][n].res)
     /\ (/\ n >= 1
         /\ Top(1).pc \in {"cats", "cards", "links"}
         /\ Len(stack'[1]) = n
         /\ stack'[1][n].pc # "ret") =>
          stack'[1][n].all_jobs = Top(1).all_jobs]_vars

\* A branch one level down raised, a sibling was visited after it, and the
\* crawl returned jobs.
SiblingsOutliveCrash ==
  /\ call[1].pc = "done"
  /\ ~ call[1].crashed
  /\ call[1].result # <<>>
  /\ \E i \in Fetches(1, "except") :
       /\ fetchLog[1][i].depth = 1
       /\ \E j \in Fetches(1, "light") :
            /\ j > i
            /\ fetchLog[1][j].by = "visit"
            /\ fetchLog[1][j].depth = 1
            /\ fetchLog[1][j].url # fetchLog[1][i].url

\* C22: every browser the heavy tier opens is closed before
\* _extract_with_selenium is left: each launch in the log is followed at
\* once by the driver.quit() of the same request, so no second browser is
\* opened while one is open, and the function returns to its caller only
\* after driver.quit() has completed (when driver.quit() itself raises, the
\* exception leaves the function: visit catches it, the entry step takes the
\* emergency path, the emergency path raises).
BrowserClosedOnEveryExit ==
  \A i \in Fetches(1, "heavy") :
    /\ i < Len(fetchLog[1])
    /\ fetchLog[1][i + 1].tier \in {"quit", "quit_raised"}
    /\ fetchLog[1][i + 1].url = fetchLog[1][i].url
    /\ fetchLog[1][i + 1].by = fetchLog[1][i].by
    /\ fetchLog[1][i + 1].tier = "quit_raised" =>
         CASE fetchLog[1][i].by = "visit" ->
                /\ i + 1 < Len(fetchLog[1])
                /\ fetchLog[1][i + 2].tier = "except"
           [] fetchLog[1][i].by = "emergency" -> call[1].pc = "raised"
           [] OTHER -> call[1].pc = "emergency" \/ call[1].crashed

\* A heavy-tier request of visit that ended with an exception inside the
\* try: the browser was closed, nothing was rendered, and visit went on with
\* the light-tier content.
BrowserClosedAfterFailure ==
  /\ stack[1] # <<>>
  /\ Top(1).pc = "classify"
  /\ Top(1).soup.tier = "light"
  /\ \E i \in Fetches(1, "heavy") :
       /\ i + 1 = Len(fetchLog[1])
       /\ fetchLog[1][i].url = Top(1).url
       /\ fetchLog[1][i].by = "visit"
       /\ fetchLog[1][i + 1].tier = "quit"

\* The depth-0 visit of url has fetched it.
VisitFetched(url) ==
  \E i \in Fetches(1, "light") :
    /\ fetchLog[1][i].by = "visit"
    /\ fetchLog[1][i].depth = 0
    /\ fetchLog[1][i].url = url

\* The filter form was detected and the filtered URL visited at depth 0.
FilteredCrawlMade ==
  \E i \in Fetches(1, "light") :
    /\ fetchLog[1][i].by = "visit"
    /\ fetchLog[1][i].depth = 0
    /\ fetchLog[1][i].url # call[1].clean_url

\* C27: after a filtered crawl that returned no job, the depth-0 visit of
\* the unfiltered root URL fetches the root before it returns, also when the
\* filtered crawl reached the root through a link (as the specification
\* states it).
RollbackFetchesRoot ==
  ( /\ call[1].pc = "crawl_root"
    /\ FilteredCrawlMade
    /\ Len(stack[1]) = 1
    /\ Top(1).pc = "ret" ) => VisitFetched(call[1].clean_url)

\* C28: when _detect_and_fill_filters builds a filtered URL, the first
\* depth-0 visit is that of the filtered URL; when the filtered crawl
\* returns a non-empty list, that list becomes the result at once and no
\* visit is started afterwards; a call that ends without entering the
\* emergency path returns it.
FilteredResultIsFinal ==
  [][/\ (call[1].pc = "entry_filters"
          /\ call'[1].pc \in {"crawl_filtered", "crawl_root"}) =>
          LET search_url == _detect_and_fill_filters(
                              Dom(call[1].scan_soup), call[1].clean_url,
                              call[1].country)
          IN /\ Len(stack'[1]) = 1
             /\ stack'[1][1].depth = 0
             /\ stack'[1][1].url = IF search_url # None THEN search_url
                                    ELSE call[1].clean_url
             /\ call'[1].pc = "crawl_filtered" <=> search_url # None
     /\ ( /\ call[1].pc = "crawl_filtered"
          /\ Len(stack[1]) = 1
          /\ Top(1).pc = "ret"
          /\ Top(1).res # <<>> ) =>
          /\ call'[1].pc = "finish"
          /\ call'[1].result = Top(1).res
          /\ stack'[1] = <<>>
     /\ call[1].pc = "finish" =>
          /\ stack'[1] = <<>>
          /\ call'[1].pc = "done" => call'[1].result = call[1].result]_vars

\* The call returned the jobs of the filtered crawl without the root having
\* been visited.
FilteredJobsReturned ==
  /\ call[1].pc = "done"
  /\ ~ call[1].crashed
  /\ call[1].result # <<>>
  /\ VisitFetched(FilteredRoot)
  /\ \A i \in Fetches(1, "light") :
       fetchLog[1][i].by = "visit" => fetchLog[1][i].url # call[1].clean_url

\* C29: when the light-tier fetch of visit reports no success, visit does
\* not return before the heavy tier has been tried for that URL (as the
\* specification states it).
LightFailureEscalates ==
  [][( /\ stack[1] # <<>>
       /\ Top(1).pc = "fetch"
       /\ Len(stack'[1]) = Len(stack[1])
       /\ stack'[1][Len(stack'[1])].pc = "ret"
       /\ ~ CaughtNow ) =>
        \E i \in 1..Len(fetchLog'[1]) :
          /\ fetchLog'[1][i].tier = "heavy"
          /\ fetchLog'[1][i].by = "visit"
          /\ fetchLog'[1][i].url = Top(1).url]_vars

\* C30: a heavy-tier request of visit for the root URL, after the entry step
\* has escalated the root and obtained the rendered page, gives visit that
\* rendered page to classify (as the specification states it).
RepeatedHeavyYieldsFirstContent ==
  [][( /\ stack[1] # <<>>
       /\ Top(1).pc = "escalate"
       /\ UsedSelenium(Me(1), Top(1).url)
       /\ call[1].scan_soup = Soup(Top(1).url, "heavy") ) =>
        /\ Len(stack'[1]) = Len(stack[1])
        /\ stack'[1][Len(stack'[1])].pc = "classify"
        /\ stack'[1][Len(stack'[1])].soup = Soup(Top(1).url, "heavy")]_vars

\* The escalation criteria as stated: thin text, short text, or a marker.
LowQuality(dom) ==
  dom.words < MIN_WORDS \/ dom.chars < MIN_CHARS \/ dom.marker

\* The step ends with a successful light-tier detail fetch of a new URL.
DetailFetchedNow ==
  /\ Len(fetchLog'[1]) = Len(fetchLog[1]) + 1
  /\ fetchLog'[1][Len(fetchLog'[1])].tier = "light"
  /\ fetchLog'[1][Len(fetchLog'[1])].by = "detail"
  /\ fetchLog'[1][Len(fetchLog'[1])].url
       \in scraper'[1].visited_job_urls \ scraper[1].visited_job_urls

\* C31: after a successful light-tier fetch the heavy tier is requested
\* exactly when the text has fewer than 100 words, fewer than 500
\* characters or an enable-JavaScript marker: at the entry step, inside
\* visit (where a URL of a known single-page application is escalated as
\* well) and for the detail page of a card or link (as the specification
\* states it).
EscalationAsStated ==
  [][/\ (call[1].pc = "entry_fetch" /\ call'[1].scan_soup # NoneObj) =>
          (call'[1].pc = "entry_escalate"
             <=> LowQuality(Dom(call'[1].scan_soup)))
     /\ ( /\ stack[1] # <<>>
          /\ Top(1).pc = "fetch"
          /\ Len(stack'[1]) = Len(stack[1])
          /\ stack'[1][Len(stack'[1])].soup # NoneObj ) =>
          (stack'[1][Len(stack'[1])].pc = "escalate"
             <=> \/ LowQuality(Dom(stack'[1][Len(stack'[1])].soup))
                 \/ _is_spa_url[Top(1).url])
     /\ DetailFetchedNow =>
          LET url == fetchLog'[1][Len(fetchLog'[1])].url
          IN LowQuality(Dom(Soup(url, "light"))) =>
               \E i \in 1..Len(fetchLog'[1]) :
                 /\ fetchLog'[1][i].tier \in {"heavy", "repeat"}
                 /\ fetchLog'[1][i].by = "detail"
                 /\ fetchLog'[1][i].url = url]_vars

\* C32: a visit that is about to fetch, escalate or classify its URL is
\* never at a URL marked as a visited gateway, and a page classified as a
\* gateway is marked from the moment its category links are looked at.
GatewayEnteredOnce ==
  \A i \in 1..Len(stack[1]) :
    LET f == stack[1][i]
    IN /\ f.pc \in {"fetch", "escalate", "classify"} =>
            f.url \notin Me(1).visited_gateways
       /\ (f.page_type = "CAREER_GATEWAY" /\ f.pc = "cats") =>
            f.url \in Me(1).visited_gateways

\* In the first call on a scraper, a visit of a URL marked as a gateway
\* earlier in that call has returned at the guards without a fetch.
GatewayRevisitStopped ==
  /\ calls = 1
  /\ stack[1] # <<>>
  /\ Top(1).pc = "ret"
  /\ Top(1).soup = NoneObj
  /\ Top(1).res = <<>>
  /\ Top(1).url \in Me(1).visited_gateways
  /\ ~ DepthExceeded(Top(1).depth)
  /\ ~ should_skip_url[Top(1).url]

\* C33: the list a call returns never holds two records with the same
\* source URL, whichever path has built it (as the specification states it).
ReturnedSourceUrlsDistinct ==
  call[1].pc = "done" =>
    \A i, j \in 1..Len(call[1].result) :
      call[1].result[i].source_url = call[1].result[j].source_url => i = j

\* The detail fetches of the listing extraction running at depth d: the
\* longest run of detail fetches at that depth the log ends with.
ListingFetches(log, d) ==
  LET stops == {i \in 1..Len(log) :
                  ~ (log[i].by = "detail" /\ log[i].depth = d)}
      from == IF stops = {} THEN 1
              ELSE 1 + CHOOSE i \in stops : \A k \in stops : k <= i
  IN SubSeq(log, from, Len(log))

\* C35: one call of _extract_from_job_listing makes at most 15 detail
\* fetches for the cards and at most 25 with those for the links, never
\* two of the same URL, and looks at the links only when the cards have
\* given fewer than 3 validated jobs.
ListingFetchesBounded ==
  [][LET n == Len(stack[1])
         m == Len(stack'[1])
     IN /\ (m >= 1 /\ stack'[1][m].pc \in {"cards", "links"}) =>
             LET run == ListingFetches(fetchLog'[1], stack'[1][m].depth)
             IN /\ Len(run) <= MAX_LISTING_CARDS + MAX_LISTING_LINKS
                /\ stack'[1][m].pc = "cards" =>
                     Len(run) <= MAX_LISTING_CARDS
                /\ \A i, j \in 1..Len(run) :
                     run[i].url = run[j].url => i = j
        /\ (/\ n >= 1
            /\ m = n
            /\ Top(1).pc = "cards"
            /\ stack'[1][m].pc = "links"
            /\ Len(Top(1).jobs) >= 3) =>
             /\ stack'[1][m].links = <<>>
             /\ fetchLog' = fetchLog]_vars

\* A listing extraction has made 15 detail fetches for the cards and 10 for
\* the links of a page that has more of both.
ListingPassesExhausted ==
  /\ stack[1] # <<>>
  /\ Top(1).pc = "links"
  /\ Top(1).links = <<>>
  /\ Len(Dom(Top(1).soup).cards) > MAX_LISTING_CARDS
  /\ Len(Dom(Top(1).soup).links) > MAX_LISTING_LINKS
  /\ Len(ListingFetches(fetchLog[1], Top(1).depth))
       = MAX_LISTING_CARDS + MAX_LISTING_LINKS

\* C37: the emergency path makes exactly one heavy-tier fetch, of the
\* resolved root URL, and no light-tier fetch, also when the root has been
\* escalated before (a root on the blocklist is not fetched at all); every
\* record it returns has a non-empty source URL (as the specification
\* states it).
EmergencyFetchesRootOnce ==
  [][/\ (/\ call[1].pc = "emergency"
         /\ call'[1].pc # "emergency"
         /\ ~ should_skip_url[_get_job_detail_url[call[1].site_url]]) =>
          LET new == SubSeq(fetchLog'[1], Len(fetchLog[1]) + 1,
                            Len(fetchLog'[1]))
          IN /\ Cardinality({i \in 1..Len(new) : new[i].tier = "heavy"}) = 1
             /\ \A i \in 1..Len(new) :
                  /\ new[i].tier # "light"
                  /\ new[i].url = _get_job_detail_url[call[1].site_url]
     /\ (call[1].pc = "emergency_cards" /\ call'[1].pc = "done") =>
          \A i \in 1..Len(call'[1].result) :
            call'[1].result[i].source_url \notin {"", None}]_vars

(***************************************************************************)
(* Properties of the helpers called on their own (SpecHelper)              *)
(***************************************************************************)
Deduplicated ==
  args.fn = "_deduplicate_jobs" /\ ret # <<>>

\* positions i < j of seq
Pairs(seq) == {p \in (1..Len(seq)) \X (1..Len(seq)) : p[1] < p[2]}

\* C11: the output of _deduplicate_jobs never holds two records with equal
\* non-empty job identifiers (as the specification states it).
NoTwoRecordsWithOneJobId ==
  Deduplicated =>
    \A p \in Pairs(ret[1]) :
      ret[1][p[1]].job_id # "" => ret[1][p[1]].job_id # ret[1][p[2]].job_id

\* C12: _deduplicate_jobs is idempotent: applied to its own output it
\* returns that output.
DeduplicateIdempotent ==
  (args.fn = "_deduplicate_jobs" /\ Len(ret) = 2) => ret[2] = ret[1]

\* _deduplicate_jobs was applied twice to a list it shortened, one that mixes
\* records with and without identifiers and holds two records that share an
\* identifier and differ in the composite key.
DeduplicatedTwice ==
  /\ args.fn = "_deduplicate_jobs"
  /\ Len(ret) = 2
  /\ Len(ret[1]) < Len(args.jobs)
  /\ \E i, j \in 1..Len(args.jobs) :
       /\ args.jobs[i].job_id = ""
       /\ args.jobs[j].job_id # ""
  /\ \E p \in Pairs(args.jobs) :
       /\ args.jobs[p[1]].job_id # ""
       /\ args.jobs[p[1]].job_id = args.jobs[p[2]].job_id
       /\ args.jobs[p[1]].job_title # args.jobs[p[2]].job_title

\* The key the specification gives a record: its identifier when it has
\* one, the composite (title, location, company) otherwise.
StatedKey(job) ==
  IF job.job_id # "" THEN << "id", job.job_id >>
  ELSE << "composite", job.job_title, job.location, job.company >>

\* The first record of each stated key, in order.
FirstOfEachKey(jobs) ==
  LET keep == {i \in 1..Len(jobs) :
                 \A j \in 1..(i - 1) : StatedKey(jobs[j]) # StatedKey(jobs[i])}
      nth[k \in 0..Len(jobs)] ==
        IF k = 0 THEN <<>>
        ELSE IF k \in keep THEN Append(nth[k - 1], jobs[k]) ELSE nth[k - 1]
  IN nth[Len(jobs)]

\* C13: _deduplicate_jobs returns the first record of each key, in order,
\* the key being the identifier when present and the composite otherwise
\* (as the specification states it).
KeepsFirstOfEachKey ==
  Deduplicated => ret[1] = FirstOfEachKey(args.jobs)

\* C16: a record whose description holds application-form language fails
\* _validate_job, whatever its other fields (as the specification states it).
ApplicationFormFailsValidation ==
  ( /\ args.fn = "_validate_job"
    /\ ret # <<>>
    /\ Contains[Lower[args.job.job_description], "application form"] )
    => ret[1] = FALSE

\* The record of the specification's example: title "Data Intern", a
\* description of 300 characters, one skill, location "Remote".
ExampleJob ==
  [job_title |-> "Data Intern", company |-> "Acme", location |-> "Remote",
   job_description |-> Desc300, skills |-> << "SQL" >>, job_id |-> "",
   source_url |-> Job1]

Scored == args.fn = "_score_job" /\ ret # <<>>

\* The signals of a record, as the specification lists them.
ValidTitle(job) ==
  Len(job.job_title) > 3 /\ ~ ContainsAny[Lower[job.job_title], invalid_titles]

KnownLocation(job) ==
  job.location # "" /\ Lower[job.location] # "location not specified"

RoleFamily(job) ==
  ContainsAny[Lower[job.job_title],
              {"engineer", "developer", "manager", "analyst", "consultant",
               "specialist", "director", "intern"}]

Marketing(job) ==
  ContainsAny[Lower[job.job_description],
              {"employee benefits", "our culture", "frequently asked questions"}]

FormLanguage(job) ==
  ContainsAny[Lower[job.job_description], {"application form", "upload resume"}]

Weight(signal, w) == IF signal THEN w ELSE 0

SumOfWeights(job) ==
    Weight(ValidTitle(job), 2) + Weight(Len(job.job_description) > 200, 2)
  + Weight(job.skills # <<>>, 1) + Weight(KnownLocation(job), 1)
  + Weight(RoleFamily(job), 1)
  - Weight(Marketing(job), 3) - Weight(FormLanguage(job), 5)

\* C17 (as the specification states it): the score is the sum of the signal
\* weights, and the example record scores 6.
ScoreOfExampleIsSix ==
  Scored =>
    /\ ret[1] = SumOfWeights(args.job)
    /\ args.job = ExampleJob => ret[1] = 6

\* C17 (amended): the score is the sum of the signal weights, and the example
\* record scores 7: "intern" is a role-family keyword, so its title earns the
\* +1 the example leaves out.
ScoreOfExampleIsSeven ==
  Scored =>
    /\ ret[1] = SumOfWeights(args.job)
    /\ args.job = ExampleJob => ret[1] = 7

\* The example record has been scored.
ExampleScored == Scored /\ args.job = ExampleJob

Matched == args.fn = "matches_target_role" /\ ret # <<>>

AllowListed(title) ==
  ContainsAny[Lower[title],
              {"intern", "internship", "co-op", "trainee", "graduate",
               "student", "apprentice", "fellowship"}]

SeniorityListed(title) ==
  ContainsAny[Lower[title],
              {"senior", "staff", "lead", "principal", "architect",
               "manager", "director", "vp", "head of", "executive", "chief",
               "partner"}]

Classified == args.fn = "_classify_page_type" /\ ret # <<>>

\* The rules of the specification, on the features of a page.
NoCards(dom) == dom.cards = <<>>

SpaMarker(url) ==
  \E m \in {"#/job", "#search", "myworkday", "taleo"} : Contains[url, m]

SingleJobHeuristic(dom) ==
  ~ dom.joblist /\ (dom.indicator \/ (dom.content > 2 /\ NoCards(dom)))

FirstMatchingRule(dom, url) ==
  CASE dom.info /\ NoCards(dom) -> "CAREER_INFO"
    [] ~ (dom.info /\ NoCards(dom)) /\ SpaMarker(url) /\ NoCards(dom)
         -> "JOB_SEARCH_APP"
    [] OTHER ->
         IF SingleJobHeuristic(dom) THEN "JOB_DETAIL"
         ELSE IF ~ NoCards(dom) THEN "JOB_LISTING"
         ELSE IF dom.cats # <<>> THEN "CAREER_GATEWAY"
         ELSE "OTHER"

\* C19: _classify_page_type returns the result of the first matching rule,
\* in the order CAREER_INFO, JOB_SEARCH_APP, JOB_DETAIL, JOB_LISTING,
\* CAREER_GATEWAY, OTHER, for every combination of page features.
ClassifyFirstMatchWins ==
  Classified => ret[1] = FirstMatchingRule(args.dom, args.url)

\* A page with job cards and a job-detail container was classified
\* JOB_DETAIL: rule 3 came before rule 4.
DetailBeatsListing ==
  /\ Classified
  /\ ~ NoCards(args.dom)
  /\ args.dom.indicator
  /\ ~ args.dom.joblist
  /\ ret[1] = "JOB_DETAIL"

\* The trimmed value is an http or https URL, whatever the case of the
\* scheme.
HttpUrl(u) ==
  StartsWith[Lower[Strip[u]], "http://"] \/ StartsWith[Lower[Strip[u]], "https://"]

\* C23: sanitize_url returns the input without its surrounding whitespace
\* exactly when the trimmed input starts with http:// or https://, and None
\* for every other input.
SanitizeUrlAsStated ==
  (args.fn = "sanitize_url" /\ ret # <<>>) =>
    ret[1] = IF args.url # None /\ HttpUrl(args.url)
               THEN Strip[args.url] ELSE None

\* An http URL in capitals with a leading blank, returned without the blank.
TrimmedUrlReturned ==
  /\ args.fn = "sanitize_url"
  /\ args.url = " Http://a.de/jobs"
  /\ ret = << "Http://a.de/jobs" >>

\* The value of a key of a record handed to is_valid_job, "" when missing.
Field(j, k) == IF k \in DOMAIN j THEN j[k] ELSE ""

TitleOf(j) ==
  IF Field(j, "job_title") # "" THEN Field(j, "job_title") ELSE Field(j, "title")

DescriptionOf(j) ==
  IF Field(j, "job_description") # "" THEN Field(j, "job_description")
  ELSE Field(j, "description")

HasJunkTerm(text) == ContainsAny[Lower[text], junk_terms]

\* C24: is_valid_job is false when the title or the company is missing or
\* empty, when the title or the company contains a junk term, and when the
\* description has fewer than 50 characters; it is true of a record with a
\* title and a company, neither of them containing a junk term, and a
\* description of at least 50 characters that mentions no privacy policy (as
\* the specification states it).
IsValidJobAsStated ==
  (args.fn = "is_valid_job" /\ ret # <<>>) =>
    LET title == TitleOf(args.job)
        company == Field(args.job, "company")
        desc == DescriptionOf(args.job)
    IN /\ (title = "" \/ company = "") => ~ ret[1]
       /\ (HasJunkTerm(title) \/ HasJunkTerm(company)) => ~ ret[1]
       /\ Len(desc) < 50 => ~ ret[1]
       /\ ( /\ title # "" /\ company # ""
            /\ ~ HasJunkTerm(title) /\ ~ HasJunkTerm(company)
            /\ Len(desc) >= 50
            /\ ~ Contains[Lower[desc], "privacy policy"] ) => ret[1]

\* The rows of the table holding the pair (job_id, company) of job.
RowsOf(rows, job) ==
  {i \in 1..Len(rows) :
     rows[i].job_id = job.job_id /\ rows[i].company = job.company}

AtMostOneRowPerPair ==
  \A i, j \in 1..Len(db.rows) :
    (db.rows[i].job_id = db.rows[j].job_id
       /\ db.rows[i].company = db.rows[j].company) => i = j

\* C25: the jobs table never holds two rows of one (job_id, company) pair;
\* a loop turn of save_jobs on a record whose pair is stored changes the
\* title and country of that row, which keeps its id and its place, and adds
\* no row; on a record with a new pair it adds one row and leaves the others
\* as they were; no other step of a save_jobs call changes the table.
UpsertByPair ==
  [][/\ AtMostOneRowPerPair'
     /\ args.fn = "save_jobs" =>
          IF db.saving /\ db'.jobs_left = db.jobs_left - 1
               /\ db'.job.title # None
            THEN LET job == db'.job
                     n == Len(db.rows)
                 IN IF RowsOf(db.rows, job) # {}
                      THEN /\ Len(db'.rows) = n
                           /\ \A i \in 1..n :
                                db'.rows[i] =
                                  IF i \in RowsOf(db.rows, job)
                                    THEN [db.rows[i] EXCEPT
                                            !.title = job.title,
                                            !.country = args.country]
                                    ELSE db.rows[i]
                      ELSE /\ Len(db'.rows) = n + 1
                           /\ SubSeq(db'.rows, 1, n) = db.rows
                           /\ RowsOf(db'.rows, job) = {n + 1}
                           /\ db'.rows[n + 1].title = job.title
            ELSE db'.rows = db.rows]_vars

\* A save_jobs call has returned after inserting one record of its list and
\* updating, with another title, a row that an earlier call had inserted.
RowUpdatedInPlace ==
  /\ args.fn = "save_jobs"
  /\ ~ db.saving
  /\ db.updated_count = 1
  /\ ret = << 1 >>
  /\ Len(db.rows) = 3
  /\ db.rows[1].title = "ML Intern"
  /\ db.rows[1].job_id = "" /\ db.rows[1].company = "Acme"
  /\ db.job.title = "ML Intern"
  /\ db.job.job_id = "" /\ db.job.company = "Acme"

\* The career vocabulary of the filter, on the title or on the URL.
CareerVocabulary(title, url) ==
  \/ \E w \in {"career", "job", "hiring", "work", "employment", "opportunity"} :
       Contains[Lower[title], w]
  \/ \E w \in {"career", "job", "hiring"} : Contains[Lower[url], w]

\* C26: _find_companies returns at most limit companies, no two of them of
\* one domain, each of them from a result whose title or URL passes the
\* career filter, whatever the search API answered.
FindCompaniesAsStated ==
  (args.fn = "_find_companies" /\ ret # <<>>) =>
    /\ Len(ret[1]) <= args.limit
    /\ \A p \in Pairs(ret[1]) : ret[1][p[1]].domain # ret[1][p[2]].domain
    /\ \A c \in Records(ret[1]) : CareerVocabulary(c.title, c.url)

\* Two companies were asked for and returned, the second one from a later
\* page than the first.
CompaniesFromSeveralPages ==
  /\ args.fn = "_find_companies"
  /\ args.limit = 2
  /\ ret # <<>>
  /\ Len(ret[1]) = 2
  /\ search.start >= 6
  /\ ret[1][1].domain = "careers.acme.com"
  /\ ret[1][2].domain = "bolt.io"
  /\ ret[1][2].url = "https://bolt.io/hiring?x=1"

\* C34: every record _extract_single_job returns has a non-empty title, a
\* non-empty company and a non-empty description, on the JobPosting path as
\* on the DOM path (as the specification states it).
ExtractedRecordComplete ==
  args.fn = "_extract_single_job" =>
    \A i \in 1..Len(ret) :
      ret[i] # NoneObj =>
        /\ ret[i].job_title # ""
        /\ ret[i].company # ""
        /\ ret[i].job_description # ""

\* The country gate as stated: the location contains the country, which is
\* not empty, or is one of the three words by itself.
StatedCountryGate(job, country) ==
  \/ country # "" /\ Contains[Lower[job.location], Lower[country]]
  \/ Lower[job.location] \in {"remote", "worldwide", "not specified",
                               "location not specified"}

\* C36: a record that validate accepts has a location that contains the
\* target country or is exactly "remote", "worldwide" or the "not specified"
\* sentinel; a location that mentions one of these words next to another
\* place, and an empty country, do not make it pass (as the specification
\* states it).
CountryGateAsStated ==
  (args.fn = "_validate_job" /\ ret = << TRUE >>) =>
    StatedCountryGate(args.job, args.country)

\* The profiles are valid internship records of one company, any two of
\* which differ in title or source URL.
DistinctJobsOfOneCompany(job_profiles) ==
  /\ \A i \in 1..Len(job_profiles) :
       /\ is_valid_job(job_profiles[i])
       /\ matches_target_role[job_profiles[i].job_title, "internship"]
       /\ job_profiles[i].company = job_profiles[1].company
  /\ \A i, j \in 1..Len(job_profiles) :
       i # j => \/ job_profiles[i].job_title # job_profiles[j].job_title
                \/ job_profiles[i].source_url # job_profiles[j].source_url

\* C38: saving N valid internship records of one company that differ in
\* title or source URL through _save_job_profiles leaves N rows in the jobs
\* table and returns N (as the specification states it).
DistinctJobsKeepTheirRows ==
  ( /\ args.fn = "_save_job_profiles"
    /\ ret # <<>>
    /\ DistinctJobsOfOneCompany(args.job_profiles) ) =>
      /\ Len(db.rows) = Len(args.job_profiles)
      /\ ret[1] = Len(args.job_profiles)

(***************************************************************************)
(* Properties of interleaved crawls (SpecConc)                             *)
(***************************************************************************)
InProgress(t) == call[t].pc \notin {"idle", "done", "raised"}

\* C10: two interleaved crawls share no mutable state: a step that is not a
\* step of crawl d leaves the session sets crawl d uses as they were (as the
\* specification states it).
CrawlsShareNoState ==
  [][\A d \in Tasks :
       (InProgress(d) /\ call'[d] = call[d] /\ stack'[d] = stack[d])
         => scraper'[scraperOf[d]] = scraper[scraperOf[d]]]_vars

=============================================================================
